---------------------------- MODULE Spec2Model ----------------------------
(*************************************************************************)
(* Rule-based cardiovascular risk scoring: the API of                    *)
(* api_medica_final.py, its copies api_medica_corrigida.py,              *)
(* api_medica_windows.py and backend/main.py with their explanation      *)
(* generators, and the Streamlit form of dashboard_medico.py.            *)
(*                                                                       *)
(* The scorer accumulates its score in Python floats (IEEE-754 binary64) *)
(* and compares the accumulated value with the literals 0.45 and 0.75,   *)
(* so the arithmetic is modelled bit-exactly: a float is a fixed-point   *)
(* number held as a little-endian sequence of 15-bit limbs, and every    *)
(* operation rounds its exact result to 53 significant bits, ties to     *)
(* even.  Pressures, weight, cholesterol and glucose are taken at        *)
(* integer values and the height at whole centimetres.                   *)
(*************************************************************************)
EXTENDS Integers, Sequences, FiniteSets, TLC

-----------------------------------------------------------------------------
(* Python float arithmetic on non-negative values *)

\* one limb holds 15 bits
LimbBits == 15
Base == 2^LimbBits

\* a score-sized float: 4 fractional limbs and 1 integer limb (units of 2^-60)
FracLimbs == 4
NumLimbs == FracLimbs + 1

RECURSIVE Zeros(_)
Zeros(n) == IF n = 0 THEN <<>> ELSE <<0>> \o Zeros(n - 1)

RECURSIVE AddC(_, _, _, _)
AddC(x, y, i, c) ==
    IF i > Len(x) THEN <<>>
    ELSE LET t == x[i] + y[i] + c
         IN  <<t % Base>> \o AddC(x, y, i + 1, t \div Base)

\* exact sum of two limb sequences of the same length
AddL(x, y) == AddC(x, y, 1, 0)

RECURSIVE SubC(_, _, _, _)
SubC(x, y, i, b) ==
    IF i > Len(x) THEN <<>>
    ELSE LET t == x[i] - y[i] - b
         IN  <<IF t < 0 THEN t + Base ELSE t>>
                 \o SubC(x, y, i + 1, IF t < 0 THEN 1 ELSE 0)

\* exact difference x - y, for x >= y
SubL(x, y) == SubC(x, y, 1, 0)

RECURSIVE MulC(_, _, _, _)
MulC(y, d, j, c) ==
    IF j > Len(y) THEN <<c>>
    ELSE LET t == y[j] * d + c
         IN  <<t % Base>> \o MulC(y, d, j + 1, t \div Base)

RECURSIVE MulAcc(_, _, _)
MulAcc(x, y, i) ==
    IF i > Len(x) THEN Zeros(2 * Len(x))
    ELSE AddL(Zeros(i - 1) \o MulC(y, x[i], 1, 0) \o Zeros(Len(x) - i),
              MulAcc(x, y, i + 1))

\* exact product: twice the limbs, twice the fractional limbs
MulL(x, y) == MulAcc(x, y, 1)

RECURSIVE GeFrom(_, _, _)
GeFrom(x, y, i) ==
    IF i = 0 THEN TRUE
    ELSE IF x[i] # y[i] THEN x[i] > y[i]
    ELSE GeFrom(x, y, i - 1)

\* x >= y
Ge(x, y) == GeFrom(x, y, Len(x))

RECURSIVE BitLen(_)
BitLen(d) == IF d = 0 THEN 0 ELSE 1 + BitLen(d \div 2)

RECURSIVE TopLimb(_, _)
TopLimb(x, i) == IF i = 0 THEN 0 ELSE IF x[i] # 0 THEN i ELSE TopLimb(x, i - 1)

\* position of the most significant set bit, -1 for zero
Msb(x) ==
    LET t == TopLimb(x, Len(x))
    IN  IF t = 0 THEN -1 ELSE LimbBits * (t - 1) + BitLen(x[t]) - 1

BitAt(x, k) == (x[(k \div LimbBits) + 1] \div 2^(k % LimbBits)) % 2

\* all bits below position k are zero
LowZero(x, k) ==
    /\ \A i \in 1..(k \div LimbBits) : x[i] = 0
    /\ x[(k \div LimbBits) + 1] % 2^(k % LimbBits) = 0

\* clear the bits below position k
Trunc(x, k) ==
    LET q == (k \div LimbBits) + 1
    IN  Zeros(q - 1) \o <<x[q] - (x[q] % 2^(k % LimbBits))>>
            \o SubSeq(x, q + 1, Len(x))

\* the bit at position k alone, in n limbs
Unit(n, k) ==
    LET q == (k \div LimbBits) + 1
    IN  Zeros(q - 1) \o <<2^(k % LimbBits)>> \o Zeros(n - q)

\* drop the bits below position r, rounding to nearest, ties to even
RoundAt(x, r) ==
    IF r <= 0 THEN x
    ELSE IF /\ BitAt(x, r - 1) = 1
            /\ (~LowZero(x, r - 1) \/ BitAt(x, r) = 1)
    THEN AddL(Trunc(x, r), Unit(Len(x), r))
    ELSE Trunc(x, r)

\* round to 53 significant bits, ties to even (the binary64 rounding)
Round53(x) == RoundAt(x, Msb(x) - 52)

IsZero(x) == \A i \in 1..Len(x) : x[i] = 0

\* Python's float +, - and * (the product keeps the doubled scale)
FAdd(x, y) ==
    IF IsZero(x) THEN y
    ELSE IF IsZero(y) THEN x
    ELSE Round53(AddL(x, y))
FSub(x, y) == Round53(SubL(x, y))
FMulWide(x, y) == Round53(MulL(x, y))

Widen(x) == Zeros(FracLimbs) \o x \o Zeros(NumLimbs - FracLimbs)
Narrow(w) == SubSeq(w, FracLimbs + 1, FracLimbs + NumLimbs)

RECURSIVE DivRem(_, _, _)
DivRem(x, d, i) ==
    IF i > Len(x) THEN 0 ELSE (DivRem(x, d, i + 1) * Base + x[i]) % d

\* the float a decimal literal n/d denotes: n/d correctly rounded
Literal(n, d) ==
    LET num  == Zeros(2 * FracLimbs) \o <<n>> \o Zeros(NumLimbs - FracLimbs - 1)
        quo  == [i \in 1..Len(num) |->
                    (DivRem(num, d, i + 1) * Base + num[i]) \div d] \o <<>>
        inex == DivRem(num, d, 1) # 0
        stk  == IF inex /\ quo[1] % 2 = 0
                THEN [quo EXCEPT ![1] = quo[1] + 1] ELSE quo
    IN  Narrow(Round53(stk))

-----------------------------------------------------------------------------
(* The float literals of calcular_risco_avancado, as the binary64 values  *)
(* Python reads them to (LiteraisExatos states this for each of them).   *)

Zero == <<0, 0, 0, 0, 0>>
\* 0.04 = 0x3FA47AE147AE147B
F004 == <<9176, 31457, 23592, 1310, 0>>
\* 0.05 = 0x3FA999999999999A
F005 == <<19664, 6553, 13107, 1638, 0>>
\* 0.08 = 0x3FB47AE147AE147B
F008 == <<18352, 30146, 14417, 2621, 0>>
\* 0.10 = 0x3FB999999999999A
F010 == <<6560, 13107, 26214, 3276, 0>>
\* 0.15 = 0x3FC3333333333333
F015 == <<26208, 19660, 6553, 4915, 0>>
\* 0.20 = 0x3FC999999999999A
F020 == <<13120, 26214, 19660, 6553, 0>>
\* 0.25 = 0x3FD0000000000000
F025 == <<0, 0, 0, 8192, 0>>
\* 0.30 = 0x3FD3333333333333
F030 == <<19648, 6553, 13107, 9830, 0>>
\* 0.35 = 0x3FD6666666666666
F035 == <<6528, 13107, 26214, 11468, 0>>
\* 0.45 = 0x3FDCCCCCCCCCCCCD
F045 == <<13120, 26214, 19660, 14745, 0>>
\* 0.75 = 0x3FE8000000000000
F075 == <<0, 0, 0, 24576, 0>>
\* 0.85 = 0x3FEB333333333333
F085 == <<6528, 13107, 26214, 27852, 0>>
\* 0.6 = 0x3FE3333333333333
F060 == <<6528, 13107, 26214, 19660, 0>>
\* 1.83 = 0x3FFD47AE147AE148
F183 == <<18432, 30146, 14417, 27197, 1>>
\* 0.67 = 0x3FE570A3D70A3D71
F067 == <<14464, 2621, 18350, 21954, 0>>
\* 0.01 = 0x3F847AE147AE147B
F001 == <<10486, 7864, 22282, 327, 0>>
\* 0.99 = 0x3FEFAE147AE147AE
F099 == <<22272, 24903, 10485, 32440, 0>>
\* 1.0 = 0x3FF0000000000000
F100 == <<0, 0, 0, 0, 1>>
\* 0.92 = 0x3FED70A3D70A3D71
F092 == <<14464, 2621, 18350, 30146, 0>>
\* 0.88 = 0x3FEC28F5C28F5C29
F088 == <<5248, 3932, 27525, 28835, 0>>

LiteraisExatos ==
    /\ F004 = Literal(4, 100)
    /\ F005 = Literal(5, 100)
    /\ F008 = Literal(8, 100)
    /\ F010 = Literal(10, 100)
    /\ F015 = Literal(15, 100)
    /\ F020 = Literal(20, 100)
    /\ F025 = Literal(25, 100)
    /\ F030 = Literal(30, 100)
    /\ F035 = Literal(35, 100)
    /\ F045 = Literal(45, 100)
    /\ F075 = Literal(75, 100)
    /\ F085 = Literal(85, 100)
    /\ F060 = Literal(60, 100)
    /\ F183 = Literal(183, 100)
    /\ F067 = Literal(67, 100)
    /\ F001 = Literal(1, 100)
    /\ F099 = Literal(99, 100)
    /\ F100 = Literal(100, 100)
    /\ F092 = Literal(92, 100)
    /\ F088 = Literal(88, 100)

\* Python's min and max on floats
FMin(x, y) == IF Ge(y, x) THEN x ELSE y
FMax(x, y) == IF Ge(x, y) THEN x ELSE y

\* a value scaled by a power of ten, w, rounded to its nearest integer, a tie
\* going to the even one
RoundUnits(w, q) ==
    IF \/ w[FracLimbs] > Base \div 2
       \/ /\ w[FracLimbs] = Base \div 2
          /\ (q % 2 = 1 \/ \E i \in 1..(FracLimbs - 1) : w[i] # 0)
    THEN q + 1 ELSE q

IntPart(w) == w[FracLimbs + 1] + Base * w[FracLimbs + 2]

Scaled(w) == RoundUnits(w, IntPart(w))

\* Python's round(x, casas) for casas in 1..4, as a count of units of
\* 10^-casas: the exact value of x is rounded, a tie going to the even count
PyRound(x, casas) == Scaled(MulC(x, 10^casas, 1, 0))

-----------------------------------------------------------------------------
(* Request bodies *)

\* caps on the two count fields (PacienteInput allows 0..20 and 0..50)
MaxMedicamentos == 5
MaxVisitas == 6

Campos ==
    {"idade", "genero", "tipo_sanguineo", "pressao_sistolica",
     "pressao_diastolica", "freq_cardiaca", "peso", "altura", "colesterol",
     "glicose", "num_medicamentos", "visitas_anuais", "dor_peito", "falta_ar",
     "fadiga", "tontura"}

\* the values a field takes in the requests; altura is in centimetres
Valores ==
    [idade              |-> {17, 34, 35, 45, 55, 65, 75},
     genero             |-> {"Masculino", "Feminino"},
     tipo_sanguineo     |-> {"O+", "A+"},
     pressao_sistolica  |-> {110, 120, 130, 140, 180},
     pressao_diastolica |-> {70, 80, 90, 110, 120},
     freq_cardiaca      |-> {68, 85},
     peso               |-> {57, 65, 75, 85, 100, 110},
     altura             |-> {0, 151, 165, 175},
     colesterol         |-> {180, 200, 240, 300},
     glicose            |-> {90, 100, 126, 200},
     num_medicamentos   |-> 0..MaxMedicamentos,
     visitas_anuais     |-> 0..MaxVisitas,
     dor_peito          |-> BOOLEAN,
     falta_ar           |-> BOOLEAN,
     fadiga             |-> BOOLEAN,
     tontura            |-> BOOLEAN]

\* the example of PacienteInput.Config
exemplo_config ==
    [idade |-> 55, genero |-> "Masculino", tipo_sanguineo |-> "O+",
     pressao_sistolica |-> 140, pressao_diastolica |-> 90, freq_cardiaca |-> 75,
     peso |-> 80, altura |-> 175, colesterol |-> 220, glicose |-> 110,
     num_medicamentos |-> 2, visitas_anuais |-> 3,
     dor_peito |-> TRUE, falta_ar |-> FALSE, fadiga |-> TRUE, tontura |-> FALSE]

\* the two patients published by /exemplo-paciente
exemplo_baixo_risco ==
    [idade |-> 35, genero |-> "Feminino", tipo_sanguineo |-> "O+",
     pressao_sistolica |-> 110, pressao_diastolica |-> 70, freq_cardiaca |-> 68,
     peso |-> 65, altura |-> 165, colesterol |-> 180, glicose |-> 90,
     num_medicamentos |-> 0, visitas_anuais |-> 1,
     dor_peito |-> FALSE, falta_ar |-> FALSE, fadiga |-> FALSE, tontura |-> FALSE]

exemplo_alto_risco ==
    [idade |-> 65, genero |-> "Masculino", tipo_sanguineo |-> "A+",
     pressao_sistolica |-> 165, pressao_diastolica |-> 95, freq_cardiaca |-> 85,
     peso |-> 95, altura |-> 175, colesterol |-> 280, glicose |-> 140,
     num_medicamentos |-> 4, visitas_anuais |-> 6,
     dor_peito |-> TRUE, falta_ar |-> TRUE, fadiga |-> TRUE, tontura |-> FALSE]

\* the third patient backend/main.py publishes
exemplo_medio_risco ==
    [idade |-> 50, genero |-> "Masculino", tipo_sanguineo |-> "A+",
     pressao_sistolica |-> 135, pressao_diastolica |-> 85, freq_cardiaca |-> 75,
     peso |-> 85, altura |-> 175, colesterol |-> 220, glicose |-> 105,
     num_medicamentos |-> 2, visitas_anuais |-> 2,
     dor_peito |-> FALSE, falta_ar |-> FALSE, fadiga |-> TRUE, tontura |-> FALSE]

\* GET /exemplo-paciente of backend/main.py: the patients under their keys
exemplo_paciente_backend ==
    [exemplo_baixo_risco |-> exemplo_baixo_risco,
     exemplo_medio_risco |-> exemplo_medio_risco,
     exemplo_alto_risco  |-> exemplo_alto_risco]

\* further first requests, whose increments add up to 0.44, 0.45 and 0.75
\* 0.25 + 0.15 + 0.04
paciente_044 ==
    [exemplo_baixo_risco EXCEPT !.idade = 65, !.pressao_sistolica = 130,
                                !.visitas_anuais = 3]
\* 0.15 + 0.15 + 0.15
paciente_045 ==
    [exemplo_baixo_risco EXCEPT !.idade = 45, !.pressao_sistolica = 130,
                                !.peso = 85]
\* 0.25 + 0.20
paciente_045b ==
    [exemplo_baixo_risco EXCEPT !.idade = 65, !.colesterol = 240]
\* 0.15 + 0.20 + 0.10 + 0.20 + 0.10
paciente_075 ==
    [exemplo_baixo_risco EXCEPT !.idade = 18, !.peso = 85, !.colesterol = 240,
                                !.glicose = 100, !.dor_peito = TRUE,
                                !.num_medicamentos = 5]
\* 0.35 + 0.25 + 0.15
paciente_075b ==
    [exemplo_baixo_risco EXCEPT !.idade = 75, !.pressao_sistolica = 140,
                                !.peso = 85]

\* 57 kg at 1.51 m: a BMI of 24.9989...
paciente_bmi_25 ==
    [exemplo_baixo_risco EXCEPT !.peso = 57, !.altura = 151]

\* every factor in its highest band:
\* 0.35 + 0.30 + 0.25 + 0.25 + 0.25 + 0.20 + 0.15 + 0.10 + 0.08 + 0.10 + 0.08
\* + 0.05
paciente_maximo ==
    [idade |-> 75, genero |-> "Masculino", tipo_sanguineo |-> "A+",
     pressao_sistolica |-> 180, pressao_diastolica |-> 120, freq_cardiaca |-> 85,
     peso |-> 110, altura |-> 151, colesterol |-> 300, glicose |-> 200,
     num_medicamentos |-> 5, visitas_anuais |-> 6,
     dor_peito |-> TRUE, falta_ar |-> TRUE, fadiga |-> TRUE, tontura |-> TRUE]

Exemplos ==
    {exemplo_config, exemplo_baixo_risco, exemplo_alto_risco, paciente_044,
     paciente_045, paciente_045b, paciente_075, paciente_075b, paciente_bmi_25}

\* the fields in which two bodies differ
Diferencas(d, e) == {f \in Campos : d[f] # e[f]}

\* a client edits one field of a body and sends it again
Edicoes(d) ==
    {d} \cup UNION {{[d EXCEPT ![f] = v] : v \in Valores[f]} : f \in Campos}

\* the bodies of the requests: the examples with at most one field edited
NaAmostra(d) == \E b \in Exemplos : Cardinality(Diferencas(d, b)) <= 1

-----------------------------------------------------------------------------
(* PacienteInput *)

\* variant: no range on altura
PacienteInputSemAltura(d) ==
    /\ d.idade >= 18 /\ d.idade <= 120
    /\ d.genero \in {"Masculino", "Feminino"}
    /\ d.tipo_sanguineo \in {"A+", "A-", "B+", "B-", "AB+", "AB-", "O+", "O-"}
    /\ d.pressao_sistolica >= 60 /\ d.pressao_sistolica <= 300
    /\ d.pressao_diastolica >= 30 /\ d.pressao_diastolica <= 200
    /\ d.freq_cardiaca >= 30 /\ d.freq_cardiaca <= 200
    /\ d.peso >= 20 /\ d.peso <= 300
    /\ d.colesterol >= 50 /\ d.colesterol <= 500
    /\ d.glicose >= 50 /\ d.glicose <= 400
    /\ d.num_medicamentos >= 0 /\ d.num_medicamentos <= 20
    /\ d.visitas_anuais >= 0 /\ d.visitas_anuais <= 50
    /\ ~(d.pressao_diastolica >= d.pressao_sistolica)

\* variant: the Field ranges without validar_pressao_diastolica
PacienteInputSemCruzada(d) ==
    /\ d.idade >= 18 /\ d.idade <= 120
    /\ d.genero \in {"Masculino", "Feminino"}
    /\ d.tipo_sanguineo \in {"A+", "A-", "B+", "B-", "AB+", "AB-", "O+", "O-"}
    /\ d.pressao_sistolica >= 60 /\ d.pressao_sistolica <= 300
    /\ d.pressao_diastolica >= 30 /\ d.pressao_diastolica <= 200
    /\ d.freq_cardiaca >= 30 /\ d.freq_cardiaca <= 200
    /\ d.peso >= 20 /\ d.peso <= 300
    /\ d.altura >= 100 /\ d.altura <= 250
    /\ d.colesterol >= 50 /\ d.colesterol <= 500
    /\ d.glicose >= 50 /\ d.glicose <= 400
    /\ d.num_medicamentos >= 0 /\ d.num_medicamentos <= 20
    /\ d.visitas_anuais >= 0 /\ d.visitas_anuais <= 50

\* the Field ranges and validar_pressao_diastolica
PacienteInput(d) ==
    /\ d.idade >= 18 /\ d.idade <= 120
    /\ d.genero \in {"Masculino", "Feminino"}
    /\ d.tipo_sanguineo \in {"A+", "A-", "B+", "B-", "AB+", "AB-", "O+", "O-"}
    /\ d.pressao_sistolica >= 60 /\ d.pressao_sistolica <= 300
    /\ d.pressao_diastolica >= 30 /\ d.pressao_diastolica <= 200
    /\ d.freq_cardiaca >= 30 /\ d.freq_cardiaca <= 200
    /\ d.peso >= 20 /\ d.peso <= 300
    /\ d.altura >= 100 /\ d.altura <= 250
    /\ d.colesterol >= 50 /\ d.colesterol <= 500
    /\ d.glicose >= 50 /\ d.glicose <= 400
    /\ d.num_medicamentos >= 0 /\ d.num_medicamentos <= 20
    /\ d.visitas_anuais >= 0 /\ d.visitas_anuais <= 50
    /\ ~(d.pressao_diastolica >= d.pressao_sistolica)

-----------------------------------------------------------------------------
(* The state of the service *)

VARIABLES
    modelo_ia,     \* the attributes of the global ModeloIAMedica instance
    historico,     \* the last two requests handled, each with its outcome
    em_curso,      \* api_medica_corrigida.py: each client's request in flight
    copias,        \* one body and the answer of each API file to it
    sidebar,       \* dashboard_medico.py: the values the widgets hold
    session_state, \* dashboard_medico.py: st.session_state
    exibido,       \* dashboard_medico.py: what the last script run rendered
    calculo        \* the calls made to ModeloIAMedica directly, newest last

vars ==
    <<modelo_ia, historico, em_curso, copias, sidebar, session_state, exibido,
      calculo>>

\* what the /predicao service of api_medica_final.py leaves alone
fora_do_servico ==
    <<em_curso, copias, sidebar, session_state, exibido, calculo>>

\* the clients of the concurrent service, none of them with a request yet
Clientes == {"c1", "c2"}
Ocioso == [fase |-> "ocioso"]

\* the value each widget of the form shows when the page is opened; a
\* checkbox is unchecked, a selectbox shows its first option
WidgetsIniciais ==
    [idade |-> 50, genero |-> "Masculino", tipo_sanguineo |-> "A+",
     pressao_sistolica |-> 120, pressao_diastolica |-> 80, freq_cardiaca |-> 70,
     peso |-> 70, altura |-> 170, colesterol |-> 200, glicose |-> 100,
     num_medicamentos |-> 0, visitas_anuais |-> 1,
     dor_peito |-> FALSE, falta_ar |-> FALSE, fadiga |-> FALSE, tontura |-> FALSE]

\* the API files
Arquivos == {"final", "corrigida", "windows", "backend"}

\* the request handled last and the one before it
Atual == historico[Len(historico)]
Anterior == historico[1]

-----------------------------------------------------------------------------
(* ModeloIAMedica *)

\* the thresholds of calcular_bmi: 18.5, 25, 30, 35 and 40
B185 == <<0, 0, 0, 16384, 18>>
B250 == <<0, 0, 0, 0, 25>>
B300 == <<0, 0, 0, 0, 30>>
B350 == <<0, 0, 0, 0, 35>>
B400 == <<0, 0, 0, 0, 40>>

\* a value times a whole number or times 2^15, the product fitting its limbs
Vezes(x, d) == SubSeq(MulC(x, d, 1, 0), 1, Len(x))
Desloca(x) == <<0>> \o SubSeq(x, 1, Len(x) - 1)

\* the bits of a value of six limbs from the one of 2^-13 up
Topo(x) == x[4] \div 4 + x[5] * 8192 + x[6] * 268435456

\* <<d + r \div a, r % a>>
RECURSIVE Corrige(_, _, _)
Corrige(r, a, d) ==
    IF Ge(r, a) THEN Corrige(SubL(r, a), a, d + 1) ELSE <<d, r>>

\* one limb of a quotient, <<r \div a, r % a>> for r < a * 2^15 and a of 1
\* to 8: the limb is first estimated from below by the leading bits, e
DigitoDe(r, a, e) == Corrige(SubL(r, Vezes(a, e)), a, e)
Digito(r, a) == DigitoDe(r, a, Topo(r) \div (Topo(a) + 1))

\* the i lowest limbs of a quotient and what is left of the division, dr
\* being the limb above them and what was left after it; with nothing left
\* the lower limbs are zero
RECURSIVE Quociente(_, _, _, _)
Quociente(dr, a, q, i) ==
    IF i = 0 \/ IsZero(dr[2]) THEN <<Zeros(i) \o <<dr[1]>> \o q, dr[2]>>
    ELSE Quociente(Digito(Desloca(dr[2]), a), a, <<dr[1]>> \o q, i - 1)

\* a quotient with what is left of its division, rounded to the nearest
\* float: an inexact quotient lies strictly between two units
ArredondarQuociente(qr) ==
    Round53(IF ~IsZero(qr[2]) /\ qr[1][1] % 2 = 0
            THEN AddL(qr[1], <<1>> \o Zeros(Len(qr[1]) - 1))
            ELSE qr[1])

\* Python's float / for a whole dividend n below 2^15 and a float a of 1 to
\* 8, the quotient being at least 2: the limb of the units first and then
\* the four fractional limbs
\* (a divisor of zero raises ZeroDivisionError: the callers test the height
\* before they divide)
FDivInteiro(n, a) ==
    IF IsZero(a) THEN Zero
    ELSE ArredondarQuociente(
             Quociente(Digito(Zeros(FracLimbs) \o <<n, 0>>, a \o <<0>>),
                       a \o <<0>>, <<>>, FracLimbs))

\* altura ** 2, the height being the float its JSON number in metres, with
\* two decimals, is read to
AlturaAoQuadrado(altura) == Narrow(FMulWide(altura, altura))

\* bmi = peso / (altura ** 2), peso in kilograms and altura in centimetres
Bmi_final(peso, altura) ==
    FDivInteiro(peso, AlturaAoQuadrado(Literal(altura, 100)))

\* round(bmi, 2), in hundredths
RoundBmi(bmi) == PyRound(bmi, 2)

\* the classification of the unrounded bmi
ClassificacaoBmi(bmi) ==
    IF ~Ge(bmi, B185) THEN "Abaixo do peso"
    ELSE IF ~Ge(bmi, B250) THEN "Peso normal"
    ELSE IF ~Ge(bmi, B300) THEN "Sobrepeso"
    ELSE IF ~Ge(bmi, B350) THEN "Obesidade Grau I"
    ELSE IF ~Ge(bmi, B400) THEN "Obesidade Grau II"
    ELSE "Obesidade Grau III (Morbida)"

\* return round(bmi, 2), classificacao
RetornoBmi(bmi) == <<RoundBmi(bmi), ClassificacaoBmi(bmi)>>

calcular_bmi(peso, altura) == RetornoBmi(Bmi_final(peso, altura))

classificar_pressao(sistolica, diastolica) ==
    IF sistolica < 120 /\ diastolica < 80 THEN "Normal"
    ELSE IF sistolica < 130 /\ diastolica < 80 THEN "Elevada"
    ELSE IF \/ sistolica >= 130 /\ sistolica < 140
            \/ diastolica >= 80 /\ diastolica < 90
    THEN "Hipertensao Estagio 1"
    ELSE IF \/ sistolica >= 140 /\ sistolica < 180
            \/ diastolica >= 90 /\ diastolica < 120
    THEN "Hipertensao Estagio 2"
    ELSE "Crise Hipertensiva"

\* variant: the score of the call before kept in the instance and not reset
score_herdado ==
    IF historico # <<>> /\ Atual.saida.status = 200 THEN Atual.saida.score
    ELSE Zero

\* score = 0
score_inicial == Zero

\* variant: the increments of the two oldest bands exchanged
SomaIdadeTrocada(score, idade) ==
    IF idade >= 75 THEN FAdd(score, F025)
    ELSE IF idade >= 65 THEN FAdd(score, F035)
    ELSE IF idade >= 55 THEN FAdd(score, F020)
    ELSE IF idade >= 45 THEN FAdd(score, F015)
    ELSE IF idade >= 35 THEN FAdd(score, F010)
    ELSE score

\* variant: the bands entered above their threshold only
SomaIdadeEstrita(score, idade) ==
    IF idade > 75 THEN FAdd(score, F035)
    ELSE IF idade > 65 THEN FAdd(score, F025)
    ELSE IF idade > 55 THEN FAdd(score, F020)
    ELSE IF idade > 45 THEN FAdd(score, F015)
    ELSE IF idade > 35 THEN FAdd(score, F010)
    ELSE score

\* 1. IDADE
SomaIdade(score, idade) ==
    IF idade >= 75 THEN FAdd(score, F035)
    ELSE IF idade >= 65 THEN FAdd(score, F025)
    ELSE IF idade >= 55 THEN FAdd(score, F020)
    ELSE IF idade >= 45 THEN FAdd(score, F015)
    ELSE IF idade >= 35 THEN FAdd(score, F010)
    ELSE score

\* 2. PRESSAO ARTERIAL
SomaPressao(score, sistolica, diastolica) ==
    IF sistolica >= 180 \/ diastolica >= 120 THEN FAdd(score, F030)
    ELSE IF sistolica >= 140 \/ diastolica >= 90 THEN FAdd(score, F025)
    ELSE IF sistolica >= 130 \/ diastolica >= 80 THEN FAdd(score, F015)
    ELSE IF sistolica >= 120 THEN FAdd(score, F005)
    ELSE score

\* 3. BMI (the rounded value, in hundredths)
SomaBmi(score, bmi) ==
    IF bmi >= 4000 THEN FAdd(score, F025)
    ELSE IF bmi >= 3500 THEN FAdd(score, F020)
    ELSE IF bmi >= 3000 THEN FAdd(score, F015)
    ELSE IF bmi >= 2500 THEN FAdd(score, F008)
    ELSE score

\* variant: 0.05 written for 0.25 in the highest band
SomaColesterolInvertida(score, colesterol) ==
    IF colesterol >= 300 THEN FAdd(score, F005)
    ELSE IF colesterol >= 240 THEN FAdd(score, F020)
    ELSE IF colesterol >= 200 THEN FAdd(score, F010)
    ELSE score

\* 4. PERFIL LIPIDICO
SomaColesterol(score, colesterol) ==
    IF colesterol >= 300 THEN FAdd(score, F025)
    ELSE IF colesterol >= 240 THEN FAdd(score, F020)
    ELSE IF colesterol >= 200 THEN FAdd(score, F010)
    ELSE score

\* 5. GLICOSE
SomaGlicose(score, glicose) ==
    IF glicose >= 200 THEN FAdd(score, F025)
    ELSE IF glicose >= 126 THEN FAdd(score, F020)
    ELSE IF glicose >= 100 THEN FAdd(score, F010)
    ELSE score

\* variant: the symptoms tested as one if/elif chain
SomaSintomasExclusivos(score, dados) ==
    IF dados.dor_peito THEN FAdd(score, F020)
    ELSE IF dados.falta_ar THEN FAdd(score, F015)
    ELSE IF dados.fadiga THEN FAdd(score, F010)
    ELSE IF dados.tontura THEN FAdd(score, F008)
    ELSE score

\* 6. SINTOMAS CARDIOVASCULARES: four independent tests
SomaDorPeito(score, dados) ==
    IF dados.dor_peito THEN FAdd(score, F020) ELSE score
SomaFaltaAr(score, dados) ==
    IF dados.falta_ar THEN FAdd(score, F015) ELSE score
SomaFadiga(score, dados) ==
    IF dados.fadiga THEN FAdd(score, F010) ELSE score
SomaTontura(score, dados) ==
    IF dados.tontura THEN FAdd(score, F008) ELSE score

SomaSintomas(score, dados) ==
    SomaTontura(SomaFadiga(SomaFaltaAr(SomaDorPeito(score, dados), dados),
                           dados), dados)

\* variant: polypharmacy weighted as shortness of breath is
SomaMedicamentosQuinze(score, num_medicamentos) ==
    IF num_medicamentos >= 5 THEN FAdd(score, F015)
    ELSE IF num_medicamentos >= 3 THEN FAdd(score, F005)
    ELSE score

\* 7. COMPLEXIDADE CLINICA
SomaMedicamentos(score, num_medicamentos) ==
    IF num_medicamentos >= 5 THEN FAdd(score, F010)
    ELSE IF num_medicamentos >= 3 THEN FAdd(score, F005)
    ELSE score

SomaVisitas(score, visitas_anuais) ==
    IF visitas_anuais >= 6 THEN FAdd(score, F008)
    ELSE IF visitas_anuais >= 3 THEN FAdd(score, F004)
    ELSE score

\* MODIFICADORES POR GENERO
SomaGenero(score, genero) ==
    IF genero = "Masculino" THEN FAdd(score, F005) ELSE score

\* the score before it is normalised
SomaPrincipais(dados) ==
    SomaGlicose(
        SomaColesterol(
            SomaBmi(
                SomaPressao(
                    SomaIdade(score_inicial, dados.idade),
                    dados.pressao_sistolica, dados.pressao_diastolica),
                calcular_bmi(dados.peso, dados.altura)[1]),
            dados.colesterol),
        dados.glicose)

\* variant: a resting heart rate from 85 beats per minute on is a factor too
SomaFatoresComFrequencia(dados) ==
    LET score == SomaGenero(
                     SomaVisitas(
                         SomaMedicamentos(
                             SomaSintomas(SomaPrincipais(dados), dados),
                             dados.num_medicamentos),
                         dados.visitas_anuais),
                     dados.genero)
    IN  IF dados.freq_cardiaca >= 85 THEN FAdd(score, F005) ELSE score

SomaFatores(dados) ==
    SomaGenero(
        SomaVisitas(
            SomaMedicamentos(
                SomaSintomas(SomaPrincipais(dados), dados),
                dados.num_medicamentos),
            dados.visitas_anuais),
        dados.genero)

\* variant: the score returned as accumulated
NormalizarAusente(score) == score

\* score = min(score, 1.0)
Normalizar(score) == FMin(score, F100)

\* the three branches on the normalised score
ProbAlto(score) == Narrow(FAdd(Widen(F085), FMulWide(FSub(score, F075), F060)))
ProbMedio(score) == Narrow(FAdd(Widen(F030), FMulWide(FSub(score, F045), F183)))
ProbBaixo(score) == Narrow(FMulWide(score, F067))

\* variant: the branches tested from the lowest threshold up
ClassificarMedioPrimeiro(score) ==
    IF Ge(score, F045)
    THEN [categoria |-> "Medio Risco", probabilidade |-> ProbMedio(score),
          confianca |-> F088]
    ELSE IF Ge(score, F075)
    THEN [categoria |-> "Alto Risco", probabilidade |-> ProbAlto(score),
          confianca |-> F092]
    ELSE [categoria |-> "Baixo Risco", probabilidade |-> ProbBaixo(score),
          confianca |-> F085]

Classificar(score) ==
    IF Ge(score, F075)
    THEN [categoria |-> "Alto Risco", probabilidade |-> ProbAlto(score),
          confianca |-> F092]
    ELSE IF Ge(score, F045)
    THEN [categoria |-> "Medio Risco", probabilidade |-> ProbMedio(score),
          confianca |-> F088]
    ELSE [categoria |-> "Baixo Risco", probabilidade |-> ProbBaixo(score),
          confianca |-> F085]

\* variant: the upper bound alone
GarantirSoTeto(probabilidade) == FMin(F099, probabilidade)

\* probabilidade = max(0.01, min(0.99, probabilidade))
GarantirBounds(probabilidade) == FMax(F001, FMin(F099, probabilidade))

\* return categoria, probabilidade, score, confianca
Retorno(score, r) ==
    [categoria     |-> r.categoria,
     probabilidade |-> GarantirBounds(r.probabilidade),
     score         |-> score,
     confianca     |-> r.confianca]

\* DETERMINACAO DA CATEGORIA, from the normalised score
DeterminarCategoria(score) == Retorno(score, Classificar(score))

calcular_risco_avancado(dados) ==
    DeterminarCategoria(Normalizar(SomaFatores(dados)))

-----------------------------------------------------------------------------
(* ModeloIAMedica of api_medica_corrigida.py *)

\* round(peso / altura ** 2, 2), in hundredths
RoundBmi_corrigida(peso, altura) ==
    LET n == peso * 1000000
        d == altura * altura
        q == n \div d
        r == n % d
    IN  IF 2 * r > d \/ (2 * r = d /\ q % 2 = 1) THEN q + 1 ELSE q

calcular_bmi_corrigida(peso, altura) ==
    LET n == peso * 100000
        d == altura * altura
        classificacao ==
            IF n < 185 * d THEN "Abaixo do peso"
            ELSE IF n < 250 * d THEN "Peso normal"
            ELSE IF n < 300 * d THEN "Sobrepeso"
            ELSE IF n < 350 * d THEN "Obesidade Grau I"
            ELSE IF n < 400 * d THEN "Obesidade Grau II"
            ELSE "Obesidade Grau III (Mórbida)"
    IN  <<RoundBmi_corrigida(peso, altura), classificacao>>

classificar_pressao_corrigida(sistolica, diastolica) ==
    IF sistolica < 120 /\ diastolica < 80 THEN "Normal"
    ELSE IF sistolica < 130 /\ diastolica < 80 THEN "Elevada"
    ELSE IF \/ sistolica >= 130 /\ sistolica < 140
            \/ diastolica >= 80 /\ diastolica < 90
    THEN "Hipertensão Estágio 1"
    ELSE IF \/ sistolica >= 140 /\ sistolica < 180
            \/ diastolica >= 90 /\ diastolica < 120
    THEN "Hipertensão Estágio 2"
    ELSE "Crise Hipertensiva"

\* score = 0
score_inicial_corrigida == Zero

\* 1. IDADE
SomaIdade_corrigida(score, idade) ==
    IF idade >= 75 THEN FAdd(score, F035)
    ELSE IF idade >= 65 THEN FAdd(score, F025)
    ELSE IF idade >= 55 THEN FAdd(score, F020)
    ELSE IF idade >= 45 THEN FAdd(score, F015)
    ELSE IF idade >= 35 THEN FAdd(score, F010)
    ELSE score

\* 2. PRESSAO ARTERIAL
SomaPressao_corrigida(score, sistolica, diastolica) ==
    IF sistolica >= 180 \/ diastolica >= 120 THEN FAdd(score, F030)
    ELSE IF sistolica >= 140 \/ diastolica >= 90 THEN FAdd(score, F025)
    ELSE IF sistolica >= 130 \/ diastolica >= 80 THEN FAdd(score, F015)
    ELSE IF sistolica >= 120 THEN FAdd(score, F005)
    ELSE score

\* 3. BMI (the rounded value, in hundredths)
SomaBmi_corrigida(score, bmi) ==
    IF bmi >= 4000 THEN FAdd(score, F025)
    ELSE IF bmi >= 3500 THEN FAdd(score, F020)
    ELSE IF bmi >= 3000 THEN FAdd(score, F015)
    ELSE IF bmi >= 2500 THEN FAdd(score, F008)
    ELSE score

\* 4. PERFIL LIPIDICO
SomaColesterol_corrigida(score, colesterol) ==
    IF colesterol >= 300 THEN FAdd(score, F025)
    ELSE IF colesterol >= 240 THEN FAdd(score, F020)
    ELSE IF colesterol >= 200 THEN FAdd(score, F010)
    ELSE score

\* 5. GLICOSE
SomaGlicose_corrigida(score, glicose) ==
    IF glicose >= 200 THEN FAdd(score, F025)
    ELSE IF glicose >= 126 THEN FAdd(score, F020)
    ELSE IF glicose >= 100 THEN FAdd(score, F010)
    ELSE score

\* 6. SINTOMAS CARDIOVASCULARES: four independent tests
SomaDorPeito_corrigida(score, dados) ==
    IF dados.dor_peito THEN FAdd(score, F020) ELSE score
SomaFaltaAr_corrigida(score, dados) ==
    IF dados.falta_ar THEN FAdd(score, F015) ELSE score
SomaFadiga_corrigida(score, dados) ==
    IF dados.fadiga THEN FAdd(score, F010) ELSE score
SomaTontura_corrigida(score, dados) ==
    IF dados.tontura THEN FAdd(score, F008) ELSE score

SomaSintomas_corrigida(score, dados) ==
    SomaTontura_corrigida(SomaFadiga_corrigida(SomaFaltaAr_corrigida(SomaDorPeito_corrigida(score, dados), dados),
                           dados), dados)

\* 7. COMPLEXIDADE CLINICA
SomaMedicamentos_corrigida(score, num_medicamentos) ==
    IF num_medicamentos >= 5 THEN FAdd(score, F010)
    ELSE IF num_medicamentos >= 3 THEN FAdd(score, F005)
    ELSE score

SomaVisitas_corrigida(score, visitas_anuais) ==
    IF visitas_anuais >= 6 THEN FAdd(score, F008)
    ELSE IF visitas_anuais >= 3 THEN FAdd(score, F004)
    ELSE score

\* MODIFICADORES POR GENERO
SomaGenero_corrigida(score, genero) ==
    IF genero = "Masculino" THEN FAdd(score, F005) ELSE score

\* the score before it is normalised
SomaPrincipais_corrigida(dados) ==
    SomaGlicose_corrigida(
        SomaColesterol_corrigida(
            SomaBmi_corrigida(
                SomaPressao_corrigida(
                    SomaIdade_corrigida(score_inicial_corrigida, dados.idade),
                    dados.pressao_sistolica, dados.pressao_diastolica),
                calcular_bmi_corrigida(dados.peso, dados.altura)[1]),
            dados.colesterol),
        dados.glicose)

SomaFatores_corrigida(dados) ==
    SomaGenero_corrigida(
        SomaVisitas_corrigida(
            SomaMedicamentos_corrigida(
                SomaSintomas_corrigida(SomaPrincipais_corrigida(dados), dados),
                dados.num_medicamentos),
            dados.visitas_anuais),
        dados.genero)

\* score = min(score, 1.0)
Normalizar_corrigida(score) == FMin(score, F100)

\* the three branches on the normalised score
ProbAlto_corrigida(score) == Narrow(FAdd(Widen(F085), FMulWide(FSub(score, F075), F060)))
ProbMedio_corrigida(score) == Narrow(FAdd(Widen(F030), FMulWide(FSub(score, F045), F183)))
ProbBaixo_corrigida(score) == Narrow(FMulWide(score, F067))

Classificar_corrigida(score) ==
    IF Ge(score, F075)
    THEN [categoria |-> "Alto Risco", probabilidade |-> ProbAlto_corrigida(score),
          confianca |-> F092]
    ELSE IF Ge(score, F045)
    THEN [categoria |-> "Médio Risco", probabilidade |-> ProbMedio_corrigida(score),
          confianca |-> F088]
    ELSE [categoria |-> "Baixo Risco", probabilidade |-> ProbBaixo_corrigida(score),
          confianca |-> F085]

\* probabilidade = max(0.01, min(0.99, probabilidade))
GarantirBounds_corrigida(probabilidade) == FMax(F001, FMin(F099, probabilidade))

\* return categoria, probabilidade, score, confianca
Retorno_corrigida(score, r) ==
    [categoria     |-> r.categoria,
     probabilidade |-> GarantirBounds_corrigida(r.probabilidade),
     score         |-> score,
     confianca     |-> r.confianca]

\* DETERMINACAO DA CATEGORIA, from the normalised score
DeterminarCategoria_corrigida(score) == Retorno_corrigida(score, Classificar_corrigida(score))

calcular_risco_avancado_corrigida(dados) ==
    DeterminarCategoria_corrigida(Normalizar_corrigida(SomaFatores_corrigida(dados)))

-----------------------------------------------------------------------------
(* ModeloIAMedica of api_medica_windows.py *)

\* round(peso / altura ** 2, 2), in hundredths
RoundBmi_windows(peso, altura) ==
    LET n == peso * 1000000
        d == altura * altura
        q == n \div d
        r == n % d
    IN  IF 2 * r > d \/ (2 * r = d /\ q % 2 = 1) THEN q + 1 ELSE q

calcular_bmi_windows(peso, altura) ==
    LET n == peso * 100000
        d == altura * altura
        classificacao ==
            IF n < 185 * d THEN "Abaixo do peso"
            ELSE IF n < 250 * d THEN "Peso normal"
            ELSE IF n < 300 * d THEN "Sobrepeso"
            ELSE IF n < 350 * d THEN "Obesidade Grau I"
            ELSE IF n < 400 * d THEN "Obesidade Grau II"
            ELSE "Obesidade Grau III (Morbida)"
    IN  <<RoundBmi_windows(peso, altura), classificacao>>

classificar_pressao_windows(sistolica, diastolica) ==
    IF sistolica < 120 /\ diastolica < 80 THEN "Normal"
    ELSE IF sistolica < 130 /\ diastolica < 80 THEN "Elevada"
    ELSE IF \/ sistolica >= 130 /\ sistolica < 140
            \/ diastolica >= 80 /\ diastolica < 90
    THEN "Hipertensao Estagio 1"
    ELSE IF \/ sistolica >= 140 /\ sistolica < 180
            \/ diastolica >= 90 /\ diastolica < 120
    THEN "Hipertensao Estagio 2"
    ELSE "Crise Hipertensiva"

\* score = 0
score_inicial_windows == Zero

\* variant: the age band of 45 to 54 years adds 0.10
SomaIdadeBandaUnica_windows(score, idade) ==
    IF idade >= 75 THEN FAdd(score, F035)
    ELSE IF idade >= 65 THEN FAdd(score, F025)
    ELSE IF idade >= 55 THEN FAdd(score, F020)
    ELSE IF idade >= 35 THEN FAdd(score, F010)
    ELSE score

\* 1. IDADE
SomaIdade_windows(score, idade) ==
    IF idade >= 75 THEN FAdd(score, F035)
    ELSE IF idade >= 65 THEN FAdd(score, F025)
    ELSE IF idade >= 55 THEN FAdd(score, F020)
    ELSE IF idade >= 45 THEN FAdd(score, F015)
    ELSE IF idade >= 35 THEN FAdd(score, F010)
    ELSE score

\* 2. PRESSAO ARTERIAL
SomaPressao_windows(score, sistolica, diastolica) ==
    IF sistolica >= 180 \/ diastolica >= 120 THEN FAdd(score, F030)
    ELSE IF sistolica >= 140 \/ diastolica >= 90 THEN FAdd(score, F025)
    ELSE IF sistolica >= 130 \/ diastolica >= 80 THEN FAdd(score, F015)
    ELSE IF sistolica >= 120 THEN FAdd(score, F005)
    ELSE score

\* 3. BMI (the rounded value, in hundredths)
SomaBmi_windows(score, bmi) ==
    IF bmi >= 4000 THEN FAdd(score, F025)
    ELSE IF bmi >= 3500 THEN FAdd(score, F020)
    ELSE IF bmi >= 3000 THEN FAdd(score, F015)
    ELSE IF bmi >= 2500 THEN FAdd(score, F008)
    ELSE score

\* 4. PERFIL LIPIDICO
SomaColesterol_windows(score, colesterol) ==
    IF colesterol >= 300 THEN FAdd(score, F025)
    ELSE IF colesterol >= 240 THEN FAdd(score, F020)
    ELSE IF colesterol >= 200 THEN FAdd(score, F010)
    ELSE score

\* 5. GLICOSE
SomaGlicose_windows(score, glicose) ==
    IF glicose >= 200 THEN FAdd(score, F025)
    ELSE IF glicose >= 126 THEN FAdd(score, F020)
    ELSE IF glicose >= 100 THEN FAdd(score, F010)
    ELSE score

\* 6. SINTOMAS CARDIOVASCULARES: four independent tests
SomaDorPeito_windows(score, dados) ==
    IF dados.dor_peito THEN FAdd(score, F020) ELSE score
SomaFaltaAr_windows(score, dados) ==
    IF dados.falta_ar THEN FAdd(score, F015) ELSE score
SomaFadiga_windows(score, dados) ==
    IF dados.fadiga THEN FAdd(score, F010) ELSE score
SomaTontura_windows(score, dados) ==
    IF dados.tontura THEN FAdd(score, F008) ELSE score

SomaSintomas_windows(score, dados) ==
    SomaTontura_windows(SomaFadiga_windows(SomaFaltaAr_windows(SomaDorPeito_windows(score, dados), dados),
                           dados), dados)

\* 7. COMPLEXIDADE CLINICA
SomaMedicamentos_windows(score, num_medicamentos) ==
    IF num_medicamentos >= 5 THEN FAdd(score, F010)
    ELSE IF num_medicamentos >= 3 THEN FAdd(score, F005)
    ELSE score

SomaVisitas_windows(score, visitas_anuais) ==
    IF visitas_anuais >= 6 THEN FAdd(score, F008)
    ELSE IF visitas_anuais >= 3 THEN FAdd(score, F004)
    ELSE score

\* MODIFICADORES POR GENERO
SomaGenero_windows(score, genero) ==
    IF genero = "Masculino" THEN FAdd(score, F005) ELSE score

\* the score before it is normalised
SomaPrincipais_windows(dados) ==
    SomaGlicose_windows(
        SomaColesterol_windows(
            SomaBmi_windows(
                SomaPressao_windows(
                    SomaIdade_windows(score_inicial_windows, dados.idade),
                    dados.pressao_sistolica, dados.pressao_diastolica),
                calcular_bmi_windows(dados.peso, dados.altura)[1]),
            dados.colesterol),
        dados.glicose)

SomaFatores_windows(dados) ==
    SomaGenero_windows(
        SomaVisitas_windows(
            SomaMedicamentos_windows(
                SomaSintomas_windows(SomaPrincipais_windows(dados), dados),
                dados.num_medicamentos),
            dados.visitas_anuais),
        dados.genero)

\* score = min(score, 1.0)
Normalizar_windows(score) == FMin(score, F100)

\* the three branches on the normalised score
ProbAlto_windows(score) == Narrow(FAdd(Widen(F085), FMulWide(FSub(score, F075), F060)))
ProbMedio_windows(score) == Narrow(FAdd(Widen(F030), FMulWide(FSub(score, F045), F183)))
ProbBaixo_windows(score) == Narrow(FMulWide(score, F067))

Classificar_windows(score) ==
    IF Ge(score, F075)
    THEN [categoria |-> "Alto Risco", probabilidade |-> ProbAlto_windows(score),
          confianca |-> F092]
    ELSE IF Ge(score, F045)
    THEN [categoria |-> "Medio Risco", probabilidade |-> ProbMedio_windows(score),
          confianca |-> F088]
    ELSE [categoria |-> "Baixo Risco", probabilidade |-> ProbBaixo_windows(score),
          confianca |-> F085]

\* probabilidade = max(0.01, min(0.99, probabilidade))
GarantirBounds_windows(probabilidade) == FMax(F001, FMin(F099, probabilidade))

\* return categoria, probabilidade, score, confianca
Retorno_windows(score, r) ==
    [categoria     |-> r.categoria,
     probabilidade |-> GarantirBounds_windows(r.probabilidade),
     score         |-> score,
     confianca     |-> r.confianca]

\* DETERMINACAO DA CATEGORIA, from the normalised score
DeterminarCategoria_windows(score) == Retorno_windows(score, Classificar_windows(score))

calcular_risco_avancado_windows(dados) ==
    DeterminarCategoria_windows(Normalizar_windows(SomaFatores_windows(dados)))

-----------------------------------------------------------------------------
(* ModeloIAMedica of backend/main.py *)

\* round(peso / altura ** 2, 2), in hundredths
RoundBmi_backend(peso, altura) ==
    LET n == peso * 1000000
        d == altura * altura
        q == n \div d
        r == n % d
    IN  IF 2 * r > d \/ (2 * r = d /\ q % 2 = 1) THEN q + 1 ELSE q

calcular_bmi_backend(peso, altura) ==
    LET n == peso * 100000
        d == altura * altura
        classificacao ==
            IF n < 185 * d THEN "Abaixo do peso"
            ELSE IF n < 250 * d THEN "Peso normal"
            ELSE IF n < 300 * d THEN "Sobrepeso"
            ELSE IF n < 350 * d THEN "Obesidade Grau I"
            ELSE IF n < 400 * d THEN "Obesidade Grau II"
            ELSE "Obesidade Grau III (Morbida)"
    IN  <<RoundBmi_backend(peso, altura), classificacao>>

classificar_pressao_backend(sistolica, diastolica) ==
    IF sistolica < 120 /\ diastolica < 80 THEN "Normal"
    ELSE IF sistolica < 130 /\ diastolica < 80 THEN "Elevada"
    ELSE IF \/ sistolica >= 130 /\ sistolica < 140
            \/ diastolica >= 80 /\ diastolica < 90
    THEN "Hipertensao Estagio 1"
    ELSE IF \/ sistolica >= 140 /\ sistolica < 180
            \/ diastolica >= 90 /\ diastolica < 120
    THEN "Hipertensao Estagio 2"
    ELSE "Crise Hipertensiva"

\* score = 0
score_inicial_backend == Zero

\* 1. IDADE
SomaIdade_backend(score, idade) ==
    IF idade >= 75 THEN FAdd(score, F035)
    ELSE IF idade >= 65 THEN FAdd(score, F025)
    ELSE IF idade >= 55 THEN FAdd(score, F020)
    ELSE IF idade >= 45 THEN FAdd(score, F015)
    ELSE IF idade >= 35 THEN FAdd(score, F010)
    ELSE score

\* 2. PRESSAO ARTERIAL
SomaPressao_backend(score, sistolica, diastolica) ==
    IF sistolica >= 180 \/ diastolica >= 120 THEN FAdd(score, F030)
    ELSE IF sistolica >= 140 \/ diastolica >= 90 THEN FAdd(score, F025)
    ELSE IF sistolica >= 130 \/ diastolica >= 80 THEN FAdd(score, F015)
    ELSE IF sistolica >= 120 THEN FAdd(score, F005)
    ELSE score

\* 3. BMI (the rounded value, in hundredths)
SomaBmi_backend(score, bmi) ==
    IF bmi >= 4000 THEN FAdd(score, F025)
    ELSE IF bmi >= 3500 THEN FAdd(score, F020)
    ELSE IF bmi >= 3000 THEN FAdd(score, F015)
    ELSE IF bmi >= 2500 THEN FAdd(score, F008)
    ELSE score

\* 4. PERFIL LIPIDICO
SomaColesterol_backend(score, colesterol) ==
    IF colesterol >= 300 THEN FAdd(score, F025)
    ELSE IF colesterol >= 240 THEN FAdd(score, F020)
    ELSE IF colesterol >= 200 THEN FAdd(score, F010)
    ELSE score

\* 5. GLICOSE
SomaGlicose_backend(score, glicose) ==
    IF glicose >= 200 THEN FAdd(score, F025)
    ELSE IF glicose >= 126 THEN FAdd(score, F020)
    ELSE IF glicose >= 100 THEN FAdd(score, F010)
    ELSE score

\* 6. SINTOMAS CARDIOVASCULARES: four independent tests
SomaDorPeito_backend(score, dados) ==
    IF dados.dor_peito THEN FAdd(score, F020) ELSE score
SomaFaltaAr_backend(score, dados) ==
    IF dados.falta_ar THEN FAdd(score, F015) ELSE score
SomaFadiga_backend(score, dados) ==
    IF dados.fadiga THEN FAdd(score, F010) ELSE score
SomaTontura_backend(score, dados) ==
    IF dados.tontura THEN FAdd(score, F008) ELSE score

SomaSintomas_backend(score, dados) ==
    SomaTontura_backend(SomaFadiga_backend(SomaFaltaAr_backend(SomaDorPeito_backend(score, dados), dados),
                           dados), dados)

\* 7. COMPLEXIDADE CLINICA
SomaMedicamentos_backend(score, num_medicamentos) ==
    IF num_medicamentos >= 5 THEN FAdd(score, F010)
    ELSE IF num_medicamentos >= 3 THEN FAdd(score, F005)
    ELSE score

SomaVisitas_backend(score, visitas_anuais) ==
    IF visitas_anuais >= 6 THEN FAdd(score, F008)
    ELSE IF visitas_anuais >= 3 THEN FAdd(score, F004)
    ELSE score

\* MODIFICADORES POR GENERO
SomaGenero_backend(score, genero) ==
    IF genero = "Masculino" THEN FAdd(score, F005) ELSE score

\* the score before it is normalised
SomaPrincipais_backend(dados) ==
    SomaGlicose_backend(
        SomaColesterol_backend(
            SomaBmi_backend(
                SomaPressao_backend(
                    SomaIdade_backend(score_inicial_backend, dados.idade),
                    dados.pressao_sistolica, dados.pressao_diastolica),
                calcular_bmi_backend(dados.peso, dados.altura)[1]),
            dados.colesterol),
        dados.glicose)

SomaFatores_backend(dados) ==
    SomaGenero_backend(
        SomaVisitas_backend(
            SomaMedicamentos_backend(
                SomaSintomas_backend(SomaPrincipais_backend(dados), dados),
                dados.num_medicamentos),
            dados.visitas_anuais),
        dados.genero)

\* score = min(score, 1.0)
Normalizar_backend(score) == FMin(score, F100)

\* the three branches on the normalised score
ProbAlto_backend(score) == Narrow(FAdd(Widen(F085), FMulWide(FSub(score, F075), F060)))
ProbMedio_backend(score) == Narrow(FAdd(Widen(F030), FMulWide(FSub(score, F045), F183)))
ProbBaixo_backend(score) == Narrow(FMulWide(score, F067))

\* variant: the branches tested from the lowest threshold up
ClassificarMedioPrimeiro_backend(score) ==
    IF Ge(score, F045)
    THEN [categoria |-> "Medio Risco", probabilidade |-> ProbMedio_backend(score),
          confianca |-> F088]
    ELSE IF Ge(score, F075)
    THEN [categoria |-> "Alto Risco", probabilidade |-> ProbAlto_backend(score),
          confianca |-> F092]
    ELSE [categoria |-> "Baixo Risco", probabilidade |-> ProbBaixo_backend(score),
          confianca |-> F085]

Classificar_backend(score) ==
    IF Ge(score, F075)
    THEN [categoria |-> "Alto Risco", probabilidade |-> ProbAlto_backend(score),
          confianca |-> F092]
    ELSE IF Ge(score, F045)
    THEN [categoria |-> "Medio Risco", probabilidade |-> ProbMedio_backend(score),
          confianca |-> F088]
    ELSE [categoria |-> "Baixo Risco", probabilidade |-> ProbBaixo_backend(score),
          confianca |-> F085]

\* probabilidade = max(0.01, min(0.99, probabilidade))
GarantirBounds_backend(probabilidade) == FMax(F001, FMin(F099, probabilidade))

\* return categoria, probabilidade, score, confianca
Retorno_backend(score, r) ==
    [categoria     |-> r.categoria,
     probabilidade |-> GarantirBounds_backend(r.probabilidade),
     score         |-> score,
     confianca     |-> r.confianca]

\* DETERMINACAO DA CATEGORIA, from the normalised score
DeterminarCategoria_backend(score) == Retorno_backend(score, Classificar_backend(score))

calcular_risco_avancado_backend(dados) ==
    DeterminarCategoria_backend(Normalizar_backend(SomaFatores_backend(dados)))

-----------------------------------------------------------------------------
(* The explanation generators: shared arithmetic and list operations *)

\* the float literals of the impacto formulas, in the doubled scale (8
\* fractional limbs)
\* 0.01 = 0x3F847AE147AE147B
W0010 == <<0, 0, 0, 0, 10486, 7864, 22282, 327, 0, 0>>
\* 0.005 = 0x3F747AE147AE147B
W0005 == <<0, 0, 0, 0, 5243, 3932, 27525, 163, 0, 0>>
\* 0.002 = 0x3F60624DD2F1A9FC
W0002 == <<0, 0, 0, 0, 21758, 21233, 17563, 65, 0, 0>>
\* 0.0005 = 0x3F40624DD2F1A9FC
W00005 == <<0, 0, 0, 16384, 13631, 29884, 12582, 16, 0, 0>>
\* 0.001 = 0x3F50624DD2F1A9FC
W0001 == <<0, 0, 0, 0, 27263, 27000, 25165, 32, 0, 0>>
\* 0.003 = 0x3F689374BC6A7EFA
W0003 == <<0, 0, 0, 0, 16253, 15466, 9961, 98, 0, 0>>
\* 0.015 = 0x3F8EB851EB851EB8
W0015 == <<0, 0, 0, 0, 15728, 11796, 17039, 491, 0, 0>>

\* the float of a whole number
FInt(k) == <<0, 0, 0, 0, k>>

\* k * c in float arithmetic, k a whole number from 0 to 300 and c a literal
\* in the doubled scale
FMulInt(k, c) == Round53(SubSeq(MulC(c, k, 1, 0), 1, Len(c)))

\* base + k * c, the value of an impacto before it is rounded
ImpactoLinear(base, k, c) == Narrow(FAdd(Widen(base), FMulInt(k, c)))

\* round(bmi, 2) as the float it is, from its count of hundredths
FloatBmi(bmi) == Literal(bmi, 100)

\* a formatted text: the text with its placeholders, the label and the numbers
\* put into them
Texto(texto, rotulo, valores) ==
    [texto |-> texto, rotulo |-> rotulo, valores |-> valores]

\* one entry of fatores_risco or fatores_protecao; impacto counts thousandths
\* where the generator rounds it to 3 places or gives it as a literal, valor
\* is in the unit of its field (hundredths for the BMI)
ExplicacaoSHAP(fator, valor, impacto, interpretacao, categoria) ==
    [fator |-> fator, valor |-> valor, impacto |-> impacto,
     interpretacao |-> interpretacao, categoria |-> categoria]

\* the key of list.sort: x.impacto or abs(x.impacto)
Chave(e, absoluto) ==
    IF absoluto /\ e.impacto < 0 THEN 0 - e.impacto ELSE e.impacto

\* list.sort(key=..., reverse=True) is stable: an entry goes behind every
\* entry whose key is at least its own
RECURSIVE Inserir(_, _, _)
Inserir(s, e, absoluto) ==
    IF s = <<>> THEN <<e>>
    ELSE IF Chave(Head(s), absoluto) >= Chave(e, absoluto)
    THEN <<Head(s)>> \o Inserir(Tail(s), e, absoluto)
    ELSE <<e>> \o s

RECURSIVE OrdenarEm(_, _, _)
OrdenarEm(feito, resto, absoluto) ==
    IF resto = <<>> THEN feito
    ELSE OrdenarEm(Inserir(feito, Head(resto), absoluto), Tail(resto),
                   absoluto)

Ordenar(lista, absoluto) == OrdenarEm(<<>>, lista, absoluto)

\* lista[:n]
Primeiros(lista, n) ==
    IF Len(lista) <= n THEN lista ELSE SubSeq(lista, 1, n)

\* lista.insert(0, x) and the conditional forms of append and extend
InserirNoInicio(lista, cond, x) == IF cond THEN <<x>> \o lista ELSE lista
Acrescentar(lista, cond, xs) == IF cond THEN lista \o xs ELSE lista

-----------------------------------------------------------------------------
(* gerar_explicacoes_detalhadas of api_medica_corrigida.py *)

\* 1. IDADE
RiscoIdade_corrigida(dados) ==
    IF dados.idade >= 65
    THEN <<ExplicacaoSHAP(
             "Idade Avançada", dados.idade,
             PyRound(ImpactoLinear(F025, dados.idade - 65, W0010), 3),
             Texto("Idade de {} anos representa fator de risco cardiovascular significativo",
                   "", <<dados.idade>>),
             "increase_risk")>>
    ELSE IF dados.idade >= 45
    THEN <<ExplicacaoSHAP(
             "Idade Intermediária", dados.idade,
             PyRound(ImpactoLinear(F010, dados.idade - 45, W0005), 3),
             Texto("Idade de {} anos é fator de risco moderado",
                   "", <<dados.idade>>),
             "increase_risk")>>
    ELSE <<>>

ProtecaoIdade_corrigida(dados) ==
    IF dados.idade >= 45 THEN <<>>
    ELSE <<ExplicacaoSHAP(
             "Idade Jovem", dados.idade, -50,
             Texto("Idade jovem ({} anos) é fator protetor",
                   "", <<dados.idade>>),
             "decrease_risk")>>

\* 2. PRESSAO ARTERIAL
RiscoPressao_corrigida(dados, classificacao_pressao) ==
    IF classificacao_pressao \in {"Hipertensão Estágio 2", "Crise Hipertensiva"}
    THEN <<ExplicacaoSHAP(
             "Hipertensão Severa", dados.pressao_sistolica,
             IF dados.pressao_sistolica >= 140
             THEN PyRound(ImpactoLinear(F025, dados.pressao_sistolica - 140,
                                        W0002), 3)
             ELSE PyRound(Narrow(FSub(Widen(F025),
                                      FMulInt(140 - dados.pressao_sistolica,
                                              W0002))), 3),
             Texto("{}: {}/{} mmHg",
                   classificacao_pressao, <<dados.pressao_sistolica, dados.pressao_diastolica>>),
             "increase_risk")>>
    ELSE IF classificacao_pressao = "Hipertensão Estágio 1"
    THEN <<ExplicacaoSHAP(
             "Hipertensão Leve", dados.pressao_sistolica, 150,
             Texto("Hipertensão estágio 1: {}/{} mmHg",
                   "", <<dados.pressao_sistolica, dados.pressao_diastolica>>),
             "increase_risk")>>
    ELSE <<>>

ProtecaoPressao_corrigida(dados, classificacao_pressao) ==
    IF classificacao_pressao = "Normal"
    THEN <<ExplicacaoSHAP(
             "Pressão Normal", dados.pressao_sistolica, -50,
             Texto("Pressão arterial normal: {}/{} mmHg",
                   "", <<dados.pressao_sistolica, dados.pressao_diastolica>>),
             "decrease_risk")>>
    ELSE <<>>

\* 3. BMI E OBESIDADE; b is what calcular_bmi returned
RiscoBmi_corrigida(b) ==
    IF b[1] >= 3000
    THEN <<ExplicacaoSHAP(
             "Obesidade", b[1],
             PyRound(Narrow(FAdd(Widen(F015),
                                 FMulWide(FSub(FloatBmi(b[1]), FInt(30)),
                                          F001))), 3),
             Texto("{}: BMI {} kg/m² aumenta risco cardiovascular",
                   b[2], <<b[1]>>),
             "increase_risk")>>
    ELSE IF b[1] >= 2500
    THEN <<ExplicacaoSHAP(
             "Sobrepeso", b[1], 80,
             Texto("Sobrepeso: BMI {} kg/m² é fator de risco moderado",
                   "", <<b[1]>>),
             "increase_risk")>>
    ELSE <<>>

ProtecaoBmi_corrigida(b) ==
    IF b[1] < 2500 /\ b[1] >= 1850
    THEN <<ExplicacaoSHAP(
             "Peso Normal", b[1], -30,
             Texto("BMI normal ({} kg/m²) é fator protetor",
                   "", <<b[1]>>),
             "decrease_risk")>>
    ELSE <<>>

\* 4. PERFIL LIPIDICO
RiscoColesterol_corrigida(dados) ==
    IF dados.colesterol >= 240
    THEN <<ExplicacaoSHAP(
             "Colesterol Muito Alto", dados.colesterol,
             PyRound(ImpactoLinear(F020, dados.colesterol - 240, W00005), 3),
             Texto("Colesterol total {} mg/dL - dislipidemia significativa",
                   "", <<dados.colesterol>>),
             "increase_risk")>>
    ELSE IF dados.colesterol >= 200
    THEN <<ExplicacaoSHAP(
             "Colesterol Elevado", dados.colesterol, 100,
             Texto("Colesterol {} mg/dL acima do ideal (<200)",
                   "", <<dados.colesterol>>),
             "increase_risk")>>
    ELSE <<>>

\* 5. GLICOSE
RiscoGlicose_corrigida(dados) ==
    IF dados.glicose >= 126
    THEN <<ExplicacaoSHAP(
             "Diabetes", dados.glicose,
             PyRound(ImpactoLinear(F020, dados.glicose - 126, W0001), 3),
             Texto("Glicose {} mg/dL sugere diabetes mellitus",
                   "", <<dados.glicose>>),
             "increase_risk")>>
    ELSE IF dados.glicose >= 100
    THEN <<ExplicacaoSHAP(
             "Pré-diabetes", dados.glicose, 100,
             Texto("Glicose {} mg/dL indica pré-diabetes",
                   "", <<dados.glicose>>),
             "increase_risk")>>
    ELSE <<>>

\* 6. SINTOMAS CARDIOVASCULARES
RiscoSintomas_corrigida(dados) ==
    (IF dados.dor_peito
     THEN <<ExplicacaoSHAP(
              "Dor Torácica", 1, 200,
              Texto("Dor no peito é sintoma cardinal de doença cardiovascular",
                   "", <<>>),
              "increase_risk")>>
     ELSE <<>>)
    \o (IF dados.falta_ar
        THEN <<ExplicacaoSHAP(
                 "Dispneia", 1, 150,
                 Texto("Falta de ar pode indicar insuficiência cardíaca ou isquemia",
                   "", <<>>),
                 "increase_risk")>>
        ELSE <<>>)
    \o (IF dados.fadiga
        THEN <<ExplicacaoSHAP(
                 "Fadiga", 1, 100,
                 Texto("Fadiga pode ser sinal de disfunção cardiovascular",
                   "", <<>>),
                 "increase_risk")>>
        ELSE <<>>)

\* fatores_risco and fatores_protecao as appended to, before the sort
fatores_risco_corrigida(dados, b, classificacao_pressao) ==
    RiscoIdade_corrigida(dados)
        \o RiscoPressao_corrigida(dados, classificacao_pressao)
        \o RiscoBmi_corrigida(b)
        \o RiscoColesterol_corrigida(dados)
        \o RiscoGlicose_corrigida(dados)
        \o RiscoSintomas_corrigida(dados)

fatores_protecao_corrigida(dados, b, classificacao_pressao) ==
    ProtecaoIdade_corrigida(dados)
        \o ProtecaoPressao_corrigida(dados, classificacao_pressao)
        \o ProtecaoBmi_corrigida(b)

\* INTERPRETACAO GERAL CLINICA: the text, dados.genero.lower(), the age and
\* the score formatted with .3f, as a count of thousandths
interpretacao_corrigida(dados, categoria, score) ==
    Texto(IF categoria = "Alto Risco"
       THEN "Paciente {}, {} anos, apresenta múltiplos fatores de risco cardiovascular. Score de risco elevado ({}) indica necessidade de avaliação cardiológica IMEDIATA e intervenção terapêutica intensiva."
       ELSE IF categoria = "Médio Risco"
       THEN "Paciente {}, {} anos, com fatores de risco cardiovascular moderados. Score {} requer monitoramento próximo, modificação do estilo de vida e possível terapia medicamentosa."
       ELSE "Paciente {}, {} anos, apresenta baixo risco cardiovascular (score {}). Manter estratégias de prevenção primária e monitoramento periódico.",
          IF dados.genero = "Masculino" THEN "masculino" ELSE "feminino",
          <<dados.idade, PyRound(score, 3)>>)

-----------------------------------------------------------------------------
(* gerar_recomendacoes_personalizadas of api_medica_corrigida.py; the      *)
(* pictograph each text opens with is left out                             *)

\* RECOMENDACOES POR CATEGORIA DE RISCO
RecCategoria_corrigida(categoria) ==
    IF categoria = "Alto Risco"
    THEN <<"URGENTE: Consulta cardiológica nas próximas 24-48h",
           "ECG de 12 derivações e ecocardiograma imediatos",
           "Troponina, BNP/NT-proBNP, D-dímero urgentes",
           "Revisar e otimizar medicações cardiovasculares",
           "Considerar hospitalização se sintomas graves">>
    ELSE IF categoria = "Médio Risco"
    THEN <<"Consulta cardiológica em 2-4 semanas",
           "Perfil lipídico completo, HbA1c, função renal",
           "Teste ergométrico ou cintilografia miocárdica",
           "Iniciar/otimizar estatina se indicado",
           "Monitoramento domiciliar da pressão arterial">>
    ELSE <<"Check-up cardiológico anual",
           "Perfil lipídico e glicemia anuais",
           "Atividade física regular (150min/semana)",
           "Dieta mediterrânea ou DASH",
           "Cessação do tabagismo se aplicável">>

\* Hipertensao
RecHipertensao_corrigida(r, classificacao_pressao) ==
    Acrescentar(r,
                classificacao_pressao \in {"Hipertensão Estágio 1",
                                           "Hipertensão Estágio 2"},
                <<"Monitoramento PA domiciliar (MAPA se possível)",
                  "Redução sódio <2g/dia, aumentar potássio",
                  "Otimizar anti-hipertensivos (IECA/BRA + diurético)">>)

RecCrise_corrigida(r, classificacao_pressao) ==
    InserirNoInicio(r, classificacao_pressao = "Crise Hipertensiva",
                    "EMERGÊNCIA: Atendimento imediato - risco de AVC/IAM")

\* Obesidade/Sobrepeso
RecPeso_corrigida(r, bmi) ==
    IF bmi >= 3000
    THEN r \o <<"Meta: perda 5-10% peso em 6 meses",
                "Acompanhamento nutricional multidisciplinar",
                "Exercícios combinados (aeróbio + resistência)",
                "Considerar medicação anti-obesidade se indicado">>
    ELSE Acrescentar(r, bmi >= 2500,
                     <<"Meta: redução 3-5kg, manter IMC <25">>)

\* Dislipidemia
RecColesterol_corrigida(r, dados) ==
    IF dados.colesterol >= 240
    THEN r \o <<"Estatina alta intensidade + ezetimiba",
                "Dieta baixa em gordura saturada (<7% cal)",
                "Meta: LDL <70mg/dL (ou <55mg/dL se alto risco)">>
    ELSE Acrescentar(r, dados.colesterol >= 200,
                     <<"Considerar estatina + mudanças dietéticas">>)

\* Diabetes/Pre-diabetes
RecGlicose_corrigida(r, dados) ==
    IF dados.glicose >= 126
    THEN r \o <<"HbA1c meta <7% (individualizar se necessário)",
                "Metformina + SGLT2i ou GLP1-RA se risco CV",
                "Fundo de olho anual, microalbuminúria">>
    ELSE Acrescentar(r, dados.glicose >= 100,
                     <<"Programa prevenção diabetes (perda peso + exercício)">>)

\* Sintomas especificos
RecDorPeito_corrigida(r, dados) ==
    InserirNoInicio(r, dados.dor_peito,
                    "INVESTIGAR dor torácica: ECG, troponina, considerar cateterismo")

RecFaltaAr_corrigida(r, dados) ==
    Acrescentar(r, dados.falta_ar,
                <<"Ecocardiograma + BNP para investigar IC">>)

\* Polifarmacia
RecPolifarmacia_corrigida(r, dados) ==
    Acrescentar(r, dados.num_medicamentos >= 5,
                <<"Revisão medicamentosa: desprescrição e interações">>)

RecCondicoes_corrigida(r, dados, bmi, classificacao_pressao) ==
    RecGlicose_corrigida(
        RecColesterol_corrigida(
            RecPeso_corrigida(
                RecCrise_corrigida(
                    RecHipertensao_corrigida(r, classificacao_pressao),
                    classificacao_pressao),
                bmi),
            dados),
        dados)

\* variant: the chest pain entry inserted before the entries of the conditions
gerar_recomendacoes_dor_peito_antes_corrigida(categoria, dados, bmi, classificacao_pressao) ==
    Primeiros(
        RecPolifarmacia_corrigida(
            RecFaltaAr_corrigida(
                RecCondicoes_corrigida(
                    RecDorPeito_corrigida(RecCategoria_corrigida(categoria),
                                          dados),
                    dados, bmi, classificacao_pressao),
                dados),
            dados),
        8)

\* return recomendacoes[:8]
gerar_recomendacoes_personalizadas_corrigida(categoria, dados, bmi, classificacao_pressao) ==
    Primeiros(
        RecPolifarmacia_corrigida(
            RecFaltaAr_corrigida(
                RecDorPeito_corrigida(
                    RecCondicoes_corrigida(RecCategoria_corrigida(categoria),
                                           dados, bmi, classificacao_pressao),
                    dados),
                dados),
            dados),
        8)

-----------------------------------------------------------------------------
(* The responses of api_medica_corrigida.py *)

\* ExplicacoesResponse(fatores_risco[:5], fatores_protecao[:3], ...), b and
\* classificacao_pressao being the two values the generator computes first
ExplicacoesResponse_corrigida(dados, categoria, score, b, classificacao_pressao) ==
    [fatores_risco |->
         Primeiros(Ordenar(fatores_risco_corrigida(dados, b,
                                                   classificacao_pressao),
                           FALSE), 5),
     fatores_protecao |->
         Primeiros(Ordenar(fatores_protecao_corrigida(dados, b,
                                                      classificacao_pressao),
                           TRUE), 3),
     interpretacao_geral |-> interpretacao_corrigida(dados, categoria, score),
     recomendacoes |->
         gerar_recomendacoes_personalizadas_corrigida(categoria, dados, b[1],
                                                      classificacao_pressao)]

gerar_explicacoes_detalhadas_corrigida(dados, categoria, score) ==
    ExplicacoesResponse_corrigida(
        dados, categoria, score,
        calcular_bmi_corrigida(dados.peso, dados.altura),
        classificar_pressao_corrigida(dados.pressao_sistolica,
                                      dados.pressao_diastolica))

\* the PredicaoResponse without its timestamp, from the handler's locals
PredicaoResponse_corrigida(b, classificacao_pressao, r) ==
    [categoria_risco       |-> r.categoria,
     probabilidade         |-> PyRound(r.probabilidade, 4),
     score_risco           |-> PyRound(r.score, 4),
     confianca             |-> PyRound(r.confianca, 3),
     bmi                   |-> b[1],
     classificacao_bmi     |-> b[2],
     classificacao_pressao |-> classificacao_pressao]

\* dados_processados without the time of processing
dados_processados_corrigida(dados, b, classificacao_pressao, r, explicacoes) ==
    [dados_entrada |-> dados,
     metricas_calculadas |->
         [bmi |-> b[1], classificacao_bmi |-> b[2],
          classificacao_pressao |-> classificacao_pressao],
     algoritmo |->
         [score_detalhado |-> PyRound(r.score, 4),
          fatores_analisados |-> Len(explicacoes.fatores_risco)
                                     + Len(explicacoes.fatores_protecao),
          versao_algoritmo |-> "2.0_advanced"],
     timestamps |-> [versao_api |-> "1.0.1"]]

AnaliseCompletaResponse_corrigida(predicao, explicacoes, dados_processados) ==
    [predicao |-> predicao, explicacoes |-> explicacoes,
     dados_processados |-> dados_processados]

-----------------------------------------------------------------------------
(* The service *)

\* ModeloIAMedica.__init__ sets no attribute
Init ==
    /\ modelo_ia = {}
    /\ historico = <<>>
    /\ em_curso = [c \in Clientes |-> Ocioso]
    /\ copias = [pedido |-> <<>>, respostas |-> <<>>]
    /\ sidebar = WidgetsIniciais
    /\ session_state = [paciente_data |-> <<>>, predicao_realizada |-> FALSE]
    /\ exibido = [tela |-> "nenhuma"]
    /\ calculo = <<>>

\* the bodies the next request may carry
Entradas ==
    IF historico = <<>> THEN Exemplos
    ELSE {d \in Edicoes(historico[Len(historico)].pedido) : NaAmostra(d)}

\* saida is what calcular_risco_avancado returned to the handler and resposta
\* the body sent to the client
Registrar(h, d, saida, resposta) ==
    LET e == [pedido |-> d, saida |-> saida, resposta |-> resposta]
    IN  IF h = <<>> THEN <<e>> ELSE <<h[Len(h)], e>>

\* the PredicaoResponse without its timestamp; probabilidade and score_risco
\* in units of 0.0001, confianca of 0.001 and bmi of 0.01
PredicaoResponse(dados, b, r) ==
    [categoria_risco       |-> r.categoria,
     probabilidade         |-> PyRound(r.probabilidade, 4),
     score_risco           |-> PyRound(r.score, 4),
     confianca             |-> PyRound(r.confianca, 3),
     bmi                   |-> b[1],
     classificacao_bmi     |-> b[2],
     classificacao_pressao |->
         classificar_pressao(dados.pressao_sistolica, dados.pressao_diastolica)]

\* the bounds PredicaoResponse declares: ge=0, le=1 on three fields
PredicaoResponseValida(p) ==
    /\ p.probabilidade >= 0 /\ p.probabilidade <= 10000
    /\ p.score_risco >= 0 /\ p.score_risco <= 10000
    /\ p.confianca >= 0 /\ p.confianca <= 1000

\* except Exception: raise HTTPException(status_code=500, ...)
Erro500(dados, detail) ==
    historico' = Registrar(historico, dados, [status |-> 500],
                           [detail |-> detail])

\* return PredicaoResponse(...): the model validates p on construction
Devolver(dados, r, p) ==
    IF PredicaoResponseValida(p)
    THEN historico' = Registrar(historico, dados, [status |-> 200] @@ r, p)
    ELSE Erro500(dados, "Erro na predicao: validation error")

\* the handler's return, r being what calcular_risco_avancado returned
Responder(dados, r) ==
    Devolver(dados, r,
             PredicaoResponse(dados, calcular_bmi(dados.peso, dados.altura), r))

\* POST /predicao with a body that passes validation; peso / (altura ** 2)
\* raises ZeroDivisionError for a height of zero
fazer_predicao(dados) ==
    /\ PacienteInput(dados)
    /\ IF dados.altura = 0
       THEN Erro500(dados, "Erro na predicao: float division by zero")
       ELSE Responder(dados, calcular_risco_avancado(dados))
    /\ UNCHANGED <<modelo_ia, fora_do_servico>>

\* POST /predicao with a body that fails validation: the handler is not entered
rejeitar(dados) ==
    /\ ~PacienteInput(dados)
    /\ historico' = Registrar(historico, dados, [status |-> 422],
                              [detail |-> "validation error"])
    /\ UNCHANGED <<modelo_ia, fora_do_servico>>

Next ==
    \/ \E dados \in Entradas : fazer_predicao(dados)
    \/ \E dados \in Entradas : rejeitar(dados)

Spec == Init /\ [][Next]_vars

\* the last request was scored; the last two were
Respondeu == Len(historico) >= 1 /\ Atual.saida.status = 200
DoisRespondidos ==
    /\ Len(historico) = 2
    /\ Atual.saida.status = 200
    /\ Anterior.saida.status = 200

-----------------------------------------------------------------------------
(* The handlers of api_medica_corrigida.py, run to completion *)

\* the three routes that score a body
Rotas == {"/predicao", "/explicacoes", "/analise-completa"}

\* an answer with its HTTP status
Resposta200(corpo) == [status |-> 200, corpo |-> corpo]
Resposta422 == [status |-> 422, corpo |-> [detail |-> "validation error"]]
Resposta500(detail) == [status |-> 500, corpo |-> [detail |-> detail]]

\* PredicaoResponse(...) inside the try block: a field out of its bounds
\* raises, and the except branch answers 500
PredicaoOuErro_corrigida(p, detail) ==
    IF PredicaoResponseValida(p) THEN Resposta200(p) ELSE Resposta500(detail)

fazer_predicao_corrigida(dados) ==
    PredicaoOuErro_corrigida(
        PredicaoResponse_corrigida(
            calcular_bmi_corrigida(dados.peso, dados.altura),
            classificar_pressao_corrigida(dados.pressao_sistolica,
                                          dados.pressao_diastolica),
            calcular_risco_avancado_corrigida(dados)),
        "Erro na predição: validation error")

\* r is what calcular_risco_avancado returned
ExplicacoesDe_corrigida(dados, r) ==
    gerar_explicacoes_detalhadas_corrigida(dados, r.categoria, r.score)

obter_explicacoes_corrigida(dados) ==
    Resposta200(ExplicacoesDe_corrigida(
                    dados, calcular_risco_avancado_corrigida(dados)))

\* the return of analise_completa from its locals
AnaliseDe_corrigida(dados, b, classificacao_pressao, r, predicao, explicacoes) ==
    Resposta200(AnaliseCompletaResponse_corrigida(
                    predicao, explicacoes,
                    dados_processados_corrigida(dados, b, classificacao_pressao,
                                                r, explicacoes)))

AnaliseOuErro_corrigida(dados, b, classificacao_pressao, r, predicao) ==
    IF PredicaoResponseValida(predicao)
    THEN AnaliseDe_corrigida(dados, b, classificacao_pressao, r, predicao,
                             ExplicacoesDe_corrigida(dados, r))
    ELSE Resposta500("Erro na análise completa: validation error")

AnaliseCom_corrigida(dados, b, classificacao_pressao, r) ==
    AnaliseOuErro_corrigida(dados, b, classificacao_pressao, r,
                            PredicaoResponse_corrigida(b, classificacao_pressao,
                                                       r))

analise_completa_corrigida(dados) ==
    AnaliseCom_corrigida(
        dados,
        calcular_bmi_corrigida(dados.peso, dados.altura),
        classificar_pressao_corrigida(dados.pressao_sistolica,
                                      dados.pressao_diastolica),
        calcular_risco_avancado_corrigida(dados))

\* the answer of a route to a body handled with no other request in flight
Sozinho_corrigida(rota, dados) ==
    IF ~PacienteInput(dados) THEN Resposta422
    ELSE IF dados.altura = 0
    THEN Resposta500("float division by zero")
    ELSE IF rota = "/predicao" THEN fazer_predicao_corrigida(dados)
    ELSE IF rota = "/explicacoes" THEN obter_explicacoes_corrigida(dados)
    ELSE analise_completa_corrigida(dados)

-----------------------------------------------------------------------------
(* gerar_explicacoes_detalhadas of api_medica_windows.py *)

\* Analise da idade
RiscoIdade_windows(dados) ==
    IF dados.idade >= 65
    THEN <<ExplicacaoSHAP(
             "Idade Avancada", dados.idade,
             PyRound(ImpactoLinear(F025, dados.idade - 65, W0010), 3),
             Texto("Idade de {} anos representa fator de risco cardiovascular significativo",
                   "", <<dados.idade>>),
             "increase_risk")>>
    ELSE IF dados.idade >= 45
    THEN <<ExplicacaoSHAP(
             "Idade Intermediaria", dados.idade,
             PyRound(ImpactoLinear(F010, dados.idade - 45, W0005), 3),
             Texto("Idade de {} anos e fator de risco moderado",
                   "", <<dados.idade>>),
             "increase_risk")>>
    ELSE <<>>

ProtecaoIdade_windows(dados) ==
    IF dados.idade >= 45 THEN <<>>
    ELSE <<ExplicacaoSHAP(
             "Idade Jovem", dados.idade, -50,
             Texto("Idade jovem ({} anos) e fator protetor",
                   "", <<dados.idade>>),
             "decrease_risk")>>

\* Analise da pressao arterial
RiscoPressao_windows(dados, classificacao_pressao) ==
    IF classificacao_pressao \in {"Hipertensao Estagio 2", "Crise Hipertensiva"}
    THEN <<ExplicacaoSHAP(
             "Hipertensao Severa", dados.pressao_sistolica,
             IF dados.pressao_sistolica >= 140
             THEN PyRound(ImpactoLinear(F025, dados.pressao_sistolica - 140,
                                        W0002), 3)
             ELSE PyRound(Narrow(FSub(Widen(F025),
                                      FMulInt(140 - dados.pressao_sistolica,
                                              W0002))), 3),
             Texto("{}: {}/{} mmHg",
                   classificacao_pressao,
                   <<dados.pressao_sistolica, dados.pressao_diastolica>>),
             "increase_risk")>>
    ELSE IF classificacao_pressao = "Hipertensao Estagio 1"
    THEN <<ExplicacaoSHAP(
             "Hipertensao Leve", dados.pressao_sistolica, 150,
             Texto("Hipertensao estagio 1: {}/{} mmHg",
                   "", <<dados.pressao_sistolica, dados.pressao_diastolica>>),
             "increase_risk")>>
    ELSE <<>>

ProtecaoPressao_windows(dados, classificacao_pressao) ==
    IF classificacao_pressao = "Normal"
    THEN <<ExplicacaoSHAP(
             "Pressao Normal", dados.pressao_sistolica, -50,
             Texto("Pressao arterial normal: {}/{} mmHg",
                   "", <<dados.pressao_sistolica, dados.pressao_diastolica>>),
             "decrease_risk")>>
    ELSE <<>>

\* Analise do BMI; b is what calcular_bmi returned
RiscoBmi_windows(b) ==
    IF b[1] >= 3000
    THEN <<ExplicacaoSHAP(
             "Obesidade", b[1],
             PyRound(Narrow(FAdd(Widen(F015),
                                 FMulWide(FSub(FloatBmi(b[1]), FInt(30)),
                                          F001))), 3),
             Texto("{}: BMI {} kg/m2 aumenta risco cardiovascular",
                   b[2], <<b[1]>>),
             "increase_risk")>>
    ELSE IF b[1] >= 2500
    THEN <<ExplicacaoSHAP(
             "Sobrepeso", b[1], 80,
             Texto("Sobrepeso: BMI {} kg/m2 e fator de risco moderado",
                   "", <<b[1]>>),
             "increase_risk")>>
    ELSE <<>>

ProtecaoBmi_windows(b) ==
    IF b[1] < 2500 /\ b[1] >= 1850
    THEN <<ExplicacaoSHAP(
             "Peso Normal", b[1], -30,
             Texto("BMI normal ({} kg/m2) e fator protetor",
                   "", <<b[1]>>),
             "decrease_risk")>>
    ELSE <<>>

\* Sintomas cardiovasculares
RiscoSintomas_windows(dados) ==
    (IF dados.dor_peito
     THEN <<ExplicacaoSHAP(
              "Dor Toracica", 1, 200,
              Texto("Dor no peito e sintoma cardinal de doenca cardiovascular",
                    "", <<>>),
              "increase_risk")>>
     ELSE <<>>)
    \o (IF dados.falta_ar
        THEN <<ExplicacaoSHAP(
                 "Dispneia", 1, 150,
                 Texto("Falta de ar pode indicar insuficiencia cardiaca ou isquemia",
                       "", <<>>),
                 "increase_risk")>>
        ELSE <<>>)

\* fatores_risco and fatores_protecao as appended to, before the sort
fatores_risco_windows(dados, b, classificacao_pressao) ==
    RiscoIdade_windows(dados)
        \o RiscoPressao_windows(dados, classificacao_pressao)
        \o RiscoBmi_windows(b)
        \o RiscoSintomas_windows(dados)

fatores_protecao_windows(dados, b, classificacao_pressao) ==
    ProtecaoIdade_windows(dados)
        \o ProtecaoPressao_windows(dados, classificacao_pressao)
        \o ProtecaoBmi_windows(b)

\* Interpretacao geral
interpretacao_windows(dados, categoria, score) ==
    Texto(IF categoria = "Alto Risco"
          THEN "Paciente {}, {} anos, apresenta multiplos fatores de risco cardiovascular. Score de risco elevado ({}) indica necessidade de avaliacao cardiologica IMEDIATA."
          ELSE IF categoria = "Medio Risco"
          THEN "Paciente {}, {} anos, com fatores de risco cardiovascular moderados. Score {} requer monitoramento proximo."
          ELSE "Paciente {}, {} anos, apresenta baixo risco cardiovascular (score {}). Manter estrategias de prevencao primaria.",
          IF dados.genero = "Masculino" THEN "masculino" ELSE "feminino",
          <<dados.idade, PyRound(score, 3)>>)

\* gerar_recomendacoes_personalizadas
RecCategoria_windows(categoria) ==
    IF categoria = "Alto Risco"
    THEN <<"URGENTE: Consulta cardiologica nas proximas 24-48h",
           "ECG de 12 derivacoes e ecocardiograma imediatos",
           "Troponina, BNP/NT-proBNP, D-dimero urgentes",
           "Revisar e otimizar medicacoes cardiovasculares">>
    ELSE IF categoria = "Medio Risco"
    THEN <<"Consulta cardiologica em 2-4 semanas",
           "Perfil lipidico completo, HbA1c, funcao renal",
           "Teste ergometrico ou cintilografia miocardica",
           "Monitoramento domiciliar da pressao arterial">>
    ELSE <<"Check-up cardiologico anual",
           "Perfil lipidico e glicemia anuais",
           "Atividade fisica regular (150min/semana)",
           "Dieta mediterranea ou DASH">>

\* Recomendacoes especificas
RecEspecificas_windows(r, dados, bmi, classificacao_pressao) ==
    Acrescentar(
        Acrescentar(
            Acrescentar(r,
                        classificacao_pressao \in {"Hipertensao Estagio 1",
                                                   "Hipertensao Estagio 2"},
                        <<"Monitoramento PA domiciliar">>),
            bmi >= 3000, <<"Meta: perda 5-10% peso em 6 meses">>),
        dados.colesterol >= 240, <<"Estatina alta intensidade + ezetimiba">>)

gerar_recomendacoes_personalizadas_windows(categoria, dados, bmi, classificacao_pressao) ==
    Primeiros(
        InserirNoInicio(
            RecEspecificas_windows(RecCategoria_windows(categoria), dados, bmi,
                                   classificacao_pressao),
            dados.dor_peito, "INVESTIGAR dor toracica: ECG, troponina"),
        8)

ExplicacoesResponse_windows(dados, categoria, score, b, classificacao_pressao) ==
    [fatores_risco |->
         Primeiros(Ordenar(fatores_risco_windows(dados, b,
                                                 classificacao_pressao),
                           FALSE), 5),
     fatores_protecao |->
         Primeiros(Ordenar(fatores_protecao_windows(dados, b,
                                                    classificacao_pressao),
                           TRUE), 3),
     interpretacao_geral |-> interpretacao_windows(dados, categoria, score),
     recomendacoes |->
         gerar_recomendacoes_personalizadas_windows(categoria, dados, b[1],
                                                    classificacao_pressao)]

gerar_explicacoes_detalhadas_windows(dados, categoria, score) ==
    ExplicacoesResponse_windows(
        dados, categoria, score,
        calcular_bmi_windows(dados.peso, dados.altura),
        classificar_pressao_windows(dados.pressao_sistolica,
                                    dados.pressao_diastolica))

-----------------------------------------------------------------------------
(* analise_completa of api_medica_windows.py *)

PredicaoResponse_windows(b, classificacao_pressao, r) ==
    [categoria_risco       |-> r.categoria,
     probabilidade         |-> PyRound(r.probabilidade, 4),
     score_risco           |-> PyRound(r.score, 4),
     confianca             |-> PyRound(r.confianca, 3),
     bmi                   |-> b[1],
     classificacao_bmi     |-> b[2],
     classificacao_pressao |-> classificacao_pressao]

\* dados_processados without the time of processing
dados_processados_windows(dados, b, classificacao_pressao, r, explicacoes) ==
    [dados_entrada |-> dados,
     metricas_calculadas |->
         [bmi |-> b[1], classificacao_bmi |-> b[2],
          classificacao_pressao |-> classificacao_pressao],
     algoritmo |->
         [score_detalhado |-> PyRound(r.score, 4),
          fatores_analisados |-> Len(explicacoes.fatores_risco)
                                     + Len(explicacoes.fatores_protecao),
          versao_algoritmo |-> "2.0_advanced"],
     timestamps |-> [versao_api |-> "1.0.2"]]

AnaliseDe_windows(dados, b, classificacao_pressao, r, predicao, explicacoes) ==
    Resposta200([predicao |-> predicao, explicacoes |-> explicacoes,
                 dados_processados |->
                     dados_processados_windows(dados, b, classificacao_pressao,
                                               r, explicacoes)])

AnaliseOuErro_windows(dados, b, classificacao_pressao, r, predicao) ==
    IF PredicaoResponseValida(predicao)
    THEN AnaliseDe_windows(
             dados, b, classificacao_pressao, r, predicao,
             gerar_explicacoes_detalhadas_windows(dados, r.categoria, r.score))
    ELSE Resposta500("Erro na analise completa: validation error")

AnaliseCom_windows(dados, b, classificacao_pressao, r) ==
    AnaliseOuErro_windows(dados, b, classificacao_pressao, r,
                          PredicaoResponse_windows(b, classificacao_pressao, r))

analise_completa_windows(dados) ==
    AnaliseCom_windows(
        dados,
        calcular_bmi_windows(dados.peso, dados.altura),
        classificar_pressao_windows(dados.pressao_sistolica,
                                    dados.pressao_diastolica),
        calcular_risco_avancado_windows(dados))

-----------------------------------------------------------------------------
(* gerar_explicacoes_shap of backend/main.py: the impacto of a risk factor *)
(* is the unrounded float, held in the doubled scale                       *)

\* Analisar fatores de risco
RiscoIdade_backend(dados) ==
    IF dados.idade > 50
    THEN <<ExplicacaoSHAP(
             "Idade", dados.idade, FMulInt(dados.idade - 50, W0005),
             Texto("Idade de {} anos aumenta o risco cardiovascular",
                   "", <<dados.idade>>),
             "increase_risk")>>
    ELSE <<>>

RiscoPressao_backend(dados) ==
    IF dados.pressao_sistolica > 140
    THEN <<ExplicacaoSHAP(
             "Pressao Sistolica", dados.pressao_sistolica,
             FMulInt(dados.pressao_sistolica - 140, W0003),
             Texto("Hipertensao (PAS: {} mmHg) e fator de risco importante",
                   "", <<dados.pressao_sistolica>>),
             "increase_risk")>>
    ELSE <<>>

\* bmi is the first value calcular_bmi returned; {bmi:.1f} is left as bmi
RiscoBmi_backend(bmi) ==
    IF bmi > 3000
    THEN <<ExplicacaoSHAP(
             "BMI", bmi, FMulWide(FSub(FloatBmi(bmi), FInt(30)), Narrow(W0015)),
             Texto("Obesidade (BMI: {}) aumenta significativamente o risco",
                   "", <<bmi>>),
             "increase_risk")>>
    ELSE <<>>

RiscoDorPeito_backend(dados) ==
    IF dados.dor_peito
    THEN <<ExplicacaoSHAP(
             "Dor no Peito", 1, Widen(F020),
             Texto("Dor toracica e sintoma cardinal de risco cardiovascular",
                   "", <<>>),
             "increase_risk")>>
    ELSE <<>>

\* Analisar fatores protetivos; their impacto is a literal, in thousandths
ProtecaoIdade_backend(dados) ==
    IF dados.idade < 40
    THEN <<ExplicacaoSHAP(
             "Idade Jovem", dados.idade, -50,
             Texto("Idade de {} anos e fator protetor", "", <<dados.idade>>),
             "decrease_risk")>>
    ELSE <<>>

ProtecaoBmi_backend(bmi) ==
    IF bmi >= 1850 /\ bmi <= 2490
    THEN <<ExplicacaoSHAP(
             "Peso Normal", bmi, -30,
             Texto("BMI normal ({}) e fator protetor", "", <<bmi>>),
             "decrease_risk")>>
    ELSE <<>>

\* Gerar interpretacao geral
interpretacao_backend(resultado) ==
    IF resultado.categoria = "Alto Risco"
    THEN "Paciente apresenta multiplos fatores de risco que elevam significativamente a probabilidade de eventos cardiovasculares. Recomenda-se avaliacao cardiologica imediata e intervencoes terapeuticas intensivas."
    ELSE IF resultado.categoria = "Medio Risco"
    THEN "Paciente apresenta alguns fatores de risco que requerem monitoramento regular e intervencoes preventivas. Modificacoes no estilo de vida e acompanhamento medico sao essenciais."
    ELSE "Paciente apresenta baixo risco cardiovascular atual, mas deve manter habitos preventivos e consultas regulares para monitoramento continuo."

\* Gerar recomendacoes; the pictograph each text opens with is left out
RecCondicoes_backend(dados, bmi) ==
    Acrescentar(
        Acrescentar(
            Acrescentar(
                Acrescentar(
                    Acrescentar(
                        <<>>, dados.pressao_sistolica > 140,
                        <<"Controle rigoroso da hipertensao arterial com medicacao otimizada">>),
                    bmi > 3000,
                    <<"Programa estruturado de reducao de peso com nutricionalista">>),
                dados.dor_peito,
                <<"Investigacao cardiologica imediata com ECG e marcadores cardiacos">>),
            dados.colesterol > 240,
            <<"Tratamento da dislipidemia com estatinas conforme protocolo">>),
        dados.glicose > 126,
        <<"Controle glicemico rigoroso e avaliacao endocrinologica">>)

\* if not recomendacoes
RecOuPadrao_backend(recomendacoes) ==
    IF recomendacoes = <<>>
    THEN <<"Manter habitos saudaveis e consultas preventivas regulares">>
    ELSE recomendacoes

ExplicacoesResponse_backend(dados, resultado, bmi) ==
    [fatores_risco |->
         RiscoIdade_backend(dados) \o RiscoPressao_backend(dados)
             \o RiscoBmi_backend(bmi) \o RiscoDorPeito_backend(dados),
     fatores_protecao |->
         ProtecaoIdade_backend(dados) \o ProtecaoBmi_backend(bmi),
     interpretacao_geral |-> interpretacao_backend(resultado),
     recomendacoes |-> RecOuPadrao_backend(RecCondicoes_backend(dados, bmi))]

gerar_explicacoes_shap(dados, resultado) ==
    ExplicacoesResponse_backend(
        dados, resultado, calcular_bmi_backend(dados.peso, dados.altura)[1])

-----------------------------------------------------------------------------
(* analise_completa of backend/main.py *)

PredicaoResponse_backend(b, classificacao_pressao, r) ==
    [categoria_risco       |-> r.categoria,
     probabilidade         |-> PyRound(r.probabilidade, 4),
     score_risco           |-> PyRound(r.score, 4),
     confianca             |-> PyRound(r.confianca, 3),
     bmi                   |-> b[1],
     classificacao_bmi     |-> b[2],
     classificacao_pressao |-> classificacao_pressao]

\* resultado = {'categoria': ..., 'probabilidade': ..., 'score': ...}
resultado_backend(r) ==
    [categoria |-> r.categoria, probabilidade |-> r.probabilidade,
     score |-> r.score]

\* dados_processados; score_final is the score as returned, a float
dados_processados_backend(dados, b, r, explicacoes) ==
    [entrada |-> dados,
     calculos |-> [bmi |-> b[1], score_final |-> r.score,
                   fatores_analisados |-> Len(explicacoes.fatores_risco)]]

AnaliseDe_backend(dados, b, r, predicao, explicacoes) ==
    Resposta200([predicao |-> predicao, explicacoes |-> explicacoes,
                 dados_processados |->
                     dados_processados_backend(dados, b, r, explicacoes)])

AnaliseOuErro_backend(dados, b, r, predicao) ==
    IF PredicaoResponseValida(predicao)
    THEN AnaliseDe_backend(dados, b, r, predicao,
                           gerar_explicacoes_shap(dados, resultado_backend(r)))
    ELSE Resposta500("Erro na analise completa: validation error")

AnaliseCom_backend(dados, b, classificacao_pressao, r) ==
    AnaliseOuErro_backend(dados, b, r,
                          PredicaoResponse_backend(b, classificacao_pressao, r))

analise_completa_backend(dados) ==
    AnaliseCom_backend(
        dados,
        calcular_bmi_backend(dados.peso, dados.altura),
        classificar_pressao_backend(dados.pressao_sistolica,
                                    dados.pressao_diastolica),
        calcular_risco_avancado_backend(dados))

-----------------------------------------------------------------------------
(* The four services side by side: one body is posted to each of them,    *)
(* to /predicao of api_medica_final.py and to /analise-completa of the    *)
(* three others, and the next body is posted once the four have answered  *)

\* the answer of a service with what calcular_risco_avancado returned to it
RespostaDe(saida, resposta) ==
    [status |-> resposta.status, saida |-> saida, corpo |-> resposta.corpo]

\* POST /predicao of api_medica_final.py from the handler's locals
PredicaoOuErro_final(p) ==
    IF PredicaoResponseValida(p) THEN Resposta200(p)
    ELSE Resposta500("Erro na predicao: validation error")

Sozinho_final(dados, r) ==
    RespostaDe(r, PredicaoOuErro_final(
                      PredicaoResponse(
                          dados, calcular_bmi(dados.peso, dados.altura), r)))

Sozinho_analise_corrigida(dados, r) ==
    RespostaDe(r, AnaliseCom_corrigida(
                      dados,
                      calcular_bmi_corrigida(dados.peso, dados.altura),
                      classificar_pressao_corrigida(dados.pressao_sistolica,
                                                    dados.pressao_diastolica),
                      r))

Sozinho_analise_windows(dados, r) ==
    RespostaDe(r, AnaliseCom_windows(
                      dados,
                      calcular_bmi_windows(dados.peso, dados.altura),
                      classificar_pressao_windows(dados.pressao_sistolica,
                                                  dados.pressao_diastolica),
                      r))

Sozinho_analise_backend(dados, r) ==
    RespostaDe(r, AnaliseCom_backend(
                      dados,
                      calcular_bmi_backend(dados.peso, dados.altura),
                      classificar_pressao_backend(dados.pressao_sistolica,
                                                  dados.pressao_diastolica),
                      r))

\* what a service answers to a body: 422 from the validation of the body,
\* 500 from the division by a height of zero, else the handler's return
RespostaDoArquivo(arquivo, dados) ==
    IF ~PacienteInput(dados) THEN RespostaDe(<<>>, Resposta422)
    ELSE IF dados.altura = 0
    THEN RespostaDe(<<>>, Resposta500("float division by zero"))
    ELSE IF arquivo = "final"
    THEN Sozinho_final(dados, calcular_risco_avancado(dados))
    ELSE IF arquivo = "corrigida"
    THEN Sozinho_analise_corrigida(dados,
                                   calcular_risco_avancado_corrigida(dados))
    ELSE IF arquivo = "windows"
    THEN Sozinho_analise_windows(dados, calcular_risco_avancado_windows(dados))
    ELSE Sozinho_analise_backend(dados, calcular_risco_avancado_backend(dados))

Respondidos == DOMAIN copias.respostas
TemPedido == DOMAIN copias.pedido # {}

\* the patients a client reads from /exemplo-paciente of backend/main.py
Publicados ==
    {exemplo_paciente_backend[chave] : chave \in DOMAIN exemplo_paciente_backend}

\* the examples and the published patients with at most one field edited
NaAmostraCopias(d) ==
    \/ NaAmostra(d)
    \/ \E b \in Publicados : Cardinality(Diferencas(d, b)) <= 1

\* the bodies the next round may carry
EntradasCopias ==
    IF TemPedido THEN {d \in Edicoes(copias.pedido) : NaAmostraCopias(d)}
    ELSE Exemplos \cup Publicados

fora_das_copias ==
    <<modelo_ia, historico, em_curso, sidebar, session_state, exibido, calculo>>

\* a client posts the same body to the four services
pedir(dados) ==
    /\ ~TemPedido \/ Respondidos = Arquivos
    /\ dados \in EntradasCopias
    /\ copias' = [pedido |-> dados, respostas |-> <<>>]
    /\ UNCHANGED fora_das_copias

\* one of the services answers the body
responder(arquivo) ==
    /\ TemPedido
    /\ arquivo \notin Respondidos
    /\ copias' = [copias EXCEPT !.respostas =
                      [a \in Respondidos \cup {arquivo} |->
                           IF a = arquivo
                           THEN RespostaDoArquivo(arquivo, copias.pedido)
                           ELSE copias.respostas[a]]]
    /\ UNCHANGED fora_das_copias

responder_final == responder("final")
responder_corrigida == responder("corrigida")
responder_windows == responder("windows")
responder_backend == responder("backend")

NextCopias ==
    \/ \E dados \in EntradasCopias : pedir(dados)
    \/ responder_final
    \/ responder_corrigida
    \/ responder_windows
    \/ responder_backend

SpecCopias == Init /\ [][NextCopias]_vars

-----------------------------------------------------------------------------
(* api_medica_corrigida.py under concurrent requests: a handler advances   *)
(* one statement at a time, and the statements of the requests in flight   *)
(* interleave in any order                                                 *)

\* the statements of each handler, in order
Instrucoes ==
    [predicao    |-> <<"bmi", "pressao", "risco", "devolver">>,
     explicacoes |-> <<"risco", "explicacoes", "devolver">>,
     analise     |-> <<"bmi", "pressao", "risco", "predicao", "explicacoes",
                       "dados_processados", "devolver">>]

Handler(rota) ==
    IF rota = "/predicao" THEN "predicao"
    ELSE IF rota = "/explicacoes" THEN "explicacoes"
    ELSE "analise"

\* the bodies the concurrent clients send
PedidosConcorrentes ==
    {exemplo_baixo_risco, exemplo_alto_risco, exemplo_config,
     [exemplo_config EXCEPT !.pressao_diastolica = 140]}

\* client c has a request in flight whose next statement is instrucao
Em(c, instrucao) ==
    /\ em_curso[c].fase = "em curso"
    /\ Instrucoes[Handler(em_curso[c].rota)][em_curso[c].pc] = instrucao

\* variant: the method keeps its result in an attribute of the instance
AtributosGuardados(atributos, r) == atributos \cup {"ultimo_resultado"}

\* the names of the attributes of modelo_ia after a method call that returned
\* r: the methods assign nothing to self
AtributosApos(atributos, r) == atributos

\* the frame of c with one more local bound and the next statement reached
Avancar(c, locais) ==
    em_curso' = [em_curso EXCEPT
                    ![c] = [pc |-> em_curso[c].pc + 1] @@ locais @@ em_curso[c]]

\* the request of c ends with an answer
Terminar(c, resposta) ==
    em_curso' = [em_curso EXCEPT
                    ![c] = [fase |-> "respondido", rota |-> em_curso[c].rota,
                            dados |-> em_curso[c].dados, resposta |-> resposta]]

fora_da_concorrencia ==
    <<historico, copias, sidebar, session_state, exibido, calculo>>

\* a client with no request in flight posts a body to a route: FastAPI
\* validates it and either enters the handler or answers 422
receber(c, rota, dados) ==
    /\ em_curso[c].fase \in {"ocioso", "respondido"}
    /\ em_curso' = [em_curso EXCEPT
                       ![c] = IF PacienteInput(dados)
                              THEN [fase |-> "em curso", pc |-> 1,
                                    rota |-> rota, dados |-> dados]
                              ELSE [fase |-> "respondido", rota |-> rota,
                                    dados |-> dados, resposta |-> Resposta422]]
    /\ UNCHANGED <<modelo_ia, fora_da_concorrencia>>

\* bmi, classificacao_bmi = modelo_ia.calcular_bmi(dados.peso, dados.altura)
passo_bmi(c) ==
    /\ Em(c, "bmi")
    /\ IF em_curso[c].dados.altura = 0
       THEN Terminar(c, Resposta500("float division by zero"))
       ELSE Avancar(c, [b |-> calcular_bmi_corrigida(em_curso[c].dados.peso,
                                                     em_curso[c].dados.altura)])
    /\ modelo_ia' = AtributosApos(modelo_ia, <<>>)
    /\ UNCHANGED fora_da_concorrencia

\* classificacao_pressao = modelo_ia.classificar_pressao(...)
passo_pressao(c) ==
    /\ Em(c, "pressao")
    /\ Avancar(c, [classificacao_pressao |->
                       classificar_pressao_corrigida(
                           em_curso[c].dados.pressao_sistolica,
                           em_curso[c].dados.pressao_diastolica)])
    /\ modelo_ia' = AtributosApos(modelo_ia, <<>>)
    /\ UNCHANGED fora_da_concorrencia

\* categoria, probabilidade, score, confianca =
\*     modelo_ia.calcular_risco_avancado(dados)
passo_risco(c) ==
    /\ Em(c, "risco")
    /\ Avancar(c, [r |-> calcular_risco_avancado_corrigida(em_curso[c].dados)])
    /\ modelo_ia' =
           AtributosApos(modelo_ia,
                         calcular_risco_avancado_corrigida(em_curso[c].dados))
    /\ UNCHANGED fora_da_concorrencia

\* predicao = PredicaoResponse(...) of analise_completa
PassoPredicao(c, p) ==
    IF PredicaoResponseValida(p)
    THEN Avancar(c, [predicao |-> p])
    ELSE Terminar(c, Resposta500("Erro na análise completa: validation error"))

passo_predicao(c) ==
    /\ Em(c, "predicao")
    /\ PassoPredicao(c, PredicaoResponse_corrigida(
                            em_curso[c].b, em_curso[c].classificacao_pressao,
                            em_curso[c].r))
    /\ UNCHANGED <<modelo_ia, fora_da_concorrencia>>

\* explicacoes = modelo_ia.gerar_explicacoes_detalhadas(dados, categoria, score)
passo_explicacoes(c) ==
    /\ Em(c, "explicacoes")
    /\ Avancar(c, [explicacoes |->
                       ExplicacoesDe_corrigida(em_curso[c].dados, em_curso[c].r)])
    /\ modelo_ia' = AtributosApos(modelo_ia, <<>>)
    /\ UNCHANGED fora_da_concorrencia

\* dados_processados = {...}
passo_dados_processados(c) ==
    /\ Em(c, "dados_processados")
    /\ Avancar(c, [dados_processados |->
                       dados_processados_corrigida(
                           em_curso[c].dados, em_curso[c].b,
                           em_curso[c].classificacao_pressao, em_curso[c].r,
                           em_curso[c].explicacoes)])
    /\ UNCHANGED <<modelo_ia, fora_da_concorrencia>>

\* the return statement of each handler
Devolucao(f) ==
    IF f.rota = "/predicao"
    THEN PredicaoOuErro_corrigida(
             PredicaoResponse_corrigida(f.b, f.classificacao_pressao, f.r),
             "Erro na predição: validation error")
    ELSE IF f.rota = "/explicacoes" THEN Resposta200(f.explicacoes)
    ELSE Resposta200(AnaliseCompletaResponse_corrigida(
                         f.predicao, f.explicacoes, f.dados_processados))

devolver(c) ==
    /\ Em(c, "devolver")
    /\ Terminar(c, Devolucao(em_curso[c]))
    /\ UNCHANGED <<modelo_ia, fora_da_concorrencia>>

NextConcorrente ==
    \/ \E c \in Clientes, rota \in Rotas, dados \in PedidosConcorrentes :
           receber(c, rota, dados)
    \/ \E c \in Clientes : passo_bmi(c)
    \/ \E c \in Clientes : passo_pressao(c)
    \/ \E c \in Clientes : passo_risco(c)
    \/ \E c \in Clientes : passo_predicao(c)
    \/ \E c \in Clientes : passo_explicacoes(c)
    \/ \E c \in Clientes : passo_dados_processados(c)
    \/ \E c \in Clientes : devolver(c)

SpecConcorrente == Init /\ [][NextConcorrente]_vars

-----------------------------------------------------------------------------
(* dashboard_medico.py: DashboardMedico *)

\* 0.40 = 0x3FD999999999999A
F040 == <<26240, 19660, 6553, 13107, 0>>
\* 0.50 = 0x3FE0000000000000
F050 == <<0, 0, 0, 16384, 0>>
\* 0.70 = 0x3FE6666666666666
F070 == <<13056, 26214, 19660, 22937, 0>>
\* 0.95 = 0x3FEE666666666666
F095 == <<13056, 26214, 19660, 31129, 0>>

LiteraisDoDashboardExatos ==
    /\ F040 = Literal(40, 100)
    /\ F050 = Literal(50, 100)
    /\ F070 = Literal(70, 100)
    /\ F095 = Literal(95, 100)

\* the values a user gives to the widgets of the sidebar, within the
\* min_value and max_value of each; the other widgets keep their value
ValoresWidgets ==
    [idade |-> {18, 50, 70}, genero |-> {"Masculino", "Feminino"},
     pressao_sistolica |-> {80, 120, 150}, pressao_diastolica |-> {80, 150},
     peso |-> {70, 100}, colesterol |-> {200, 250}, glicose |-> {100, 130},
     dor_peito |-> BOOLEAN, falta_ar |-> BOOLEAN, fadiga |-> BOOLEAN,
     tontura |-> BOOLEAN]

\* bmi = peso / (altura ** 2), kept as the quotient it is: the float the
\* code holds compares with 25 and 30 as the quotient does, no weight of
\* ValoresWidgets being 25 or 30 times the square of a height
Bmi(peso, altura) == [n |-> peso * 10000, d |-> altura * altura]
BmiMaiorQue(bmi, k) == bmi.n > k * bmi.d

\* int(dor_peito)
int(b) == IF b THEN 1 ELSE 0

\* st.session_state.paciente_data = {...}
paciente_data_de(w) ==
    [idade |-> w.idade, genero |-> w.genero,
     tipo_sanguineo |-> w.tipo_sanguineo,
     pressao_sistolica |-> w.pressao_sistolica,
     pressao_diastolica |-> w.pressao_diastolica,
     freq_cardiaca |-> w.freq_cardiaca,
     bmi |-> Bmi(w.peso, w.altura),
     colesterol |-> w.colesterol, glicose |-> w.glicose,
     num_medicamentos |-> w.num_medicamentos,
     visitas_anuais |-> w.visitas_anuais,
     dor_peito |-> int(w.dor_peito), falta_ar |-> int(w.falta_ar),
     fadiga |-> int(w.fadiga), tontura |-> int(w.tontura)]

\* Fator idade
SimuladoIdade(score, dados) ==
    IF dados.idade > 65 THEN FAdd(score, F030)
    ELSE IF dados.idade > 50 THEN FAdd(score, F020)
    ELSE IF dados.idade > 35 THEN FAdd(score, F010)
    ELSE score

\* Fator pressao arterial
SimuladoPressao(score, dados) ==
    IF dados.pressao_sistolica > 140 \/ dados.pressao_diastolica > 90
    THEN FAdd(score, F025)
    ELSE IF dados.pressao_sistolica > 130 \/ dados.pressao_diastolica > 85
    THEN FAdd(score, F015)
    ELSE score

\* Fator BMI
SimuladoBmi(score, dados) ==
    IF BmiMaiorQue(dados.bmi, 30) THEN FAdd(score, F020)
    ELSE IF BmiMaiorQue(dados.bmi, 25) THEN FAdd(score, F010)
    ELSE score

\* Fator colesterol
SimuladoColesterol(score, dados) ==
    IF dados.colesterol > 240 THEN FAdd(score, F020)
    ELSE IF dados.colesterol > 200 THEN FAdd(score, F010)
    ELSE score

\* Fator glicose
SimuladoGlicose(score, dados) ==
    IF dados.glicose > 126 THEN FAdd(score, F015)
    ELSE IF dados.glicose > 100 THEN FAdd(score, F005)
    ELSE score

\* score += dados[sintoma] * peso: the product is the weight or 0.0
SimuladoSintoma(score, marcado, peso) ==
    IF marcado = 1 THEN FAdd(score, peso) ELSE score

\* Sintomas
SimuladoSintomas(score, dados) ==
    SimuladoSintoma(
        SimuladoSintoma(
            SimuladoSintoma(SimuladoSintoma(score, dados.dor_peito, F015),
                            dados.falta_ar, F010),
            dados.fadiga, F008),
        dados.tontura, F005)

\* the score as accumulated, from score = 0
SimuladoScore(dados) ==
    SimuladoSintomas(
        SimuladoGlicose(
            SimuladoColesterol(
                SimuladoBmi(
                    SimuladoPressao(SimuladoIdade(Zero, dados), dados),
                    dados),
                dados),
            dados),
        dados)

\* Determinar categoria de risco
SimuladoResultado(score) ==
    IF Ge(score, F070)
    THEN [categoria |-> "Alto Risco",
          probabilidade |->
              FMin(F095, Narrow(FAdd(Widen(F070), FMulWide(score, F030)))),
          score |-> score, cor |-> "#dc3545"]
    ELSE IF Ge(score, F040)
    THEN [categoria |-> "Médio Risco",
          probabilidade |->
              Narrow(FAdd(Widen(F040), FMulWide(score, F040))),
          score |-> score, cor |-> "#ffc107"]
    ELSE [categoria |-> "Baixo Risco",
          probabilidade |-> FMax(F005, Narrow(FMulWide(score, F050))),
          score |-> score, cor |-> "#28a745"]

calcular_risco_simulado(dados) == SimuladoResultado(SimuladoScore(dados))

\* sidebar_entrada_dados: the script reads the widgets and stores the record
sidebar_entrada_dados(w) ==
    session_state' = [session_state EXCEPT !.paciente_data = paciente_data_de(w)]

\* main with the button not pressed: the record is stored and the initial
\* screen is rendered
TelaInicial(w) ==
    /\ sidebar_entrada_dados(w)
    /\ exibido' = [tela |-> "inicial"]

\* main with the button pressed: exibir_resultado_analise is handed the
\* stored record and what calcular_risco_simulado returned for it
Analise(w) ==
    /\ session_state' = [paciente_data |-> paciente_data_de(w),
                         predicao_realizada |-> TRUE]
    /\ exibido' = [tela |-> "analise", dados |-> paciente_data_de(w),
                   resultado |-> calcular_risco_simulado(paciente_data_de(w))]

\* one run of the script
main(w, analisar) ==
    /\ sidebar' = w
    /\ IF analisar THEN Analise(w) ELSE TelaInicial(w)
    /\ UNCHANGED <<modelo_ia, historico, em_curso, copias, calculo>>

PaginaAberta == exibido.tela # "nenhuma"

\* the page is opened: the script runs with every widget at its default
abrir ==
    /\ ~PaginaAberta
    /\ main(sidebar, FALSE)

\* the user changes one widget, and Streamlit runs the script again
alterar(campo, valor) ==
    /\ PaginaAberta
    /\ valor # sidebar[campo]
    /\ main([sidebar EXCEPT ![campo] = valor], FALSE)

\* the user presses "Analisar Risco Cardiaco"
pressionar ==
    /\ PaginaAberta
    /\ main(sidebar, TRUE)

NextDashboard ==
    \/ abrir
    \/ \E campo \in DOMAIN ValoresWidgets :
           \E valor \in ValoresWidgets[campo] : alterar(campo, valor)
    \/ pressionar

SpecDashboard == Init /\ [][NextDashboard]_vars

-----------------------------------------------------------------------------
(* The table of increments, as the documentation of the scorer gives it *)

\* the largest increment among the bands of a table that v reaches, in
\* hundredths; a band is <<threshold, increment>>
MaiorBanda(v, bandas) ==
    LET m == {b[2] : b \in {c \in bandas : v >= c[1]}} \cup {0}
    IN  CHOOSE x \in m : \A y \in m : y <= x

Maior(a, b) == IF a >= b THEN a ELSE b

\* one increment per factor, in the order the scorer adds them; the body
\* mass index is peso / altura^2, compared as peso * 10000 with the
\* threshold times altura^2 (altura in centimetres)
Incrementos(d) ==
    LET a2 == d.altura * d.altura
    IN  << MaiorBanda(d.idade, {<<75, 35>>, <<65, 25>>, <<55, 20>>,
                                <<45, 15>>, <<35, 10>>}),
           Maior(MaiorBanda(d.pressao_sistolica,
                            {<<180, 30>>, <<140, 25>>, <<130, 15>>, <<120, 5>>}),
                 MaiorBanda(d.pressao_diastolica,
                            {<<120, 30>>, <<90, 25>>, <<80, 15>>})),
           MaiorBanda(d.peso * 10000,
                      {<<40 * a2, 25>>, <<35 * a2, 20>>, <<30 * a2, 15>>,
                       <<25 * a2, 8>>}),
           MaiorBanda(d.colesterol, {<<300, 25>>, <<240, 20>>, <<200, 10>>}),
           MaiorBanda(d.glicose, {<<200, 25>>, <<126, 20>>, <<100, 10>>}),
           IF d.dor_peito THEN 20 ELSE 0,
           IF d.falta_ar THEN 15 ELSE 0,
           IF d.fadiga THEN 10 ELSE 0,
           IF d.tontura THEN 8 ELSE 0,
           MaiorBanda(d.num_medicamentos, {<<5, 10>>, <<3, 5>>}),
           MaiorBanda(d.visitas_anuais, {<<6, 8>>, <<3, 4>>}),
           IF d.genero = "Masculino" THEN 5 ELSE 0 >>

\* the float an increment of the table is written as
Centesimos(h) ==
    CASE h = 0 -> Zero   [] h = 4 -> F004   [] h = 5 -> F005   [] h = 8 -> F008
      [] h = 10 -> F010  [] h = 15 -> F015  [] h = 20 -> F020  [] h = 25 -> F025
      [] h = 30 -> F030  [] h = 35 -> F035

\* the sum of the increments in decimal arithmetic, in hundredths
RECURSIVE SomaDecimal(_)
SomaDecimal(incs) ==
    IF incs = <<>> THEN 0 ELSE Head(incs) + SomaDecimal(Tail(incs))

\* the sum of the increments in float arithmetic, added from left to right
RECURSIVE SomaFloat(_, _)
SomaFloat(acc, incs) ==
    IF incs = <<>> THEN acc
    ELSE SomaFloat(FAdd(acc, Centesimos(Head(incs))), Tail(incs))

-----------------------------------------------------------------------------
(* Properties of calcular_risco_avancado *)

\* C1: for every record that passes validation the returned score lies in
\* [0, 1] and the returned probability in [0.01, 0.99]
C1_ScoreEProbabilidadeLimitados ==
    Respondeu =>
        /\ Ge(Atual.saida.score, Zero)
        /\ Ge(F100, Atual.saida.score)
        /\ Ge(Atual.saida.probabilidade, F001)
        /\ Ge(F099, Atual.saida.probabilidade)

\* a record whose increments add up to more than 1 was scored 1.0 and 0.99
C1_Limitado ==
    /\ Respondeu
    /\ ~Ge(F100, SomaFatores(Atual.pedido))
    /\ Atual.saida.score = F100
    /\ Atual.saida.probabilidade = F099

\* C2: the category follows from the clamped score alone, with inclusive
\* lower boundaries (High from 0.75, Medium from 0.45 up to 0.75, Low below
\* 0.45); a record whose increments sum to 0.44 is Low, one summing to 0.45
\* is Medium and one summing to 0.75 is High; exactly one category is returned
C2_CategoriaPelosLimiares ==
    Respondeu =>
        LET score == Atual.saida.score
            cat   == Atual.saida.categoria
            soma  == SomaDecimal(Incrementos(Atual.pedido))
        IN  /\ cat \in {"Alto Risco", "Medio Risco", "Baixo Risco"}
            /\ cat = "Alto Risco" <=> Ge(score, F075)
            /\ cat = "Medio Risco" <=> Ge(score, F045) /\ ~Ge(score, F075)
            /\ cat = "Baixo Risco" <=> ~Ge(score, F045)
            /\ soma = 44 => cat = "Baixo Risco"
            /\ soma = 45 => cat = "Medio Risco"
            /\ soma = 75 => cat = "Alto Risco"

\* C3: the returned score is min(1.0, S), S being the sum of one increment
\* per factor taken from the table of bands (age, blood pressure, body mass
\* index, cholesterol, glucose, medication count, annual visits), of the
\* increments of the symptoms that are present and of 0.05 for a male patient
C3_ScoreTabelado ==
    Respondeu =>
        Atual.saida.score = FMin(F100, SomaFloat(Zero, Incrementos(Atual.pedido)))

\* the clamp of the affine map of a category, and the confidence of a category
MapaAfim(cat, score) ==
    CASE cat = "Alto Risco" ->
             Narrow(FAdd(Widen(F085), FMulWide(FSub(score, F075), F060)))
      [] cat = "Medio Risco" ->
             Narrow(FAdd(Widen(F030), FMulWide(FSub(score, F045), F183)))
      [] cat = "Baixo Risco" -> Narrow(FMulWide(score, F067))

ConfiancaDe(cat) ==
    CASE cat = "Alto Risco" -> F092
      [] cat = "Medio Risco" -> F088
      [] cat = "Baixo Risco" -> F085

\* C4: the returned probability is the affine map of the category applied to
\* the score (High 0.85 + (score - 0.75) * 0.6, Medium 0.30 + (score - 0.45)
\* * 1.83, Low score * 0.67) clamped to [0.01, 0.99], and the returned
\* confidence is the constant of the category (0.92, 0.88, 0.85)
C4_ProbabilidadeEConfianca ==
    Respondeu =>
        LET cat == Atual.saida.categoria
            p   == MapaAfim(cat, Atual.saida.score)
        IN  /\ Atual.saida.probabilidade =
                   (IF Ge(F001, p) THEN F001 ELSE IF Ge(p, F099) THEN F099 ELSE p)
            /\ Atual.saida.confianca = ConfiancaDe(cat)

\* a record with no increment at all: the map gives 0 and the clamp 0.01
C4_PisoAplicado ==
    /\ Respondeu
    /\ Atual.saida.categoria = "Baixo Risco"
    /\ IsZero(Atual.saida.score)
    /\ Atual.saida.probabilidade = F001
    /\ Atual.saida.confianca = F085

-----------------------------------------------------------------------------
(* Relations between the scores of two requests *)

PedidoA == Anterior.pedido
PedidoB == Atual.pedido

\* C5: of two validated records equal in every field but the age, the one
\* with the larger age never receives the smaller score
C5_MonotonoNaIdade ==
    (/\ DoisRespondidos
     /\ Diferencas(PedidoA, PedidoB) \subseteq {"idade"}
     /\ PedidoA.idade <= PedidoB.idade)
        => Ge(Atual.saida.score, Anterior.saida.score)

\* an older patient, otherwise equal, was scored strictly higher
C5_IdadeMaiorPontuaMais ==
    /\ DoisRespondidos
    /\ Diferencas(PedidoA, PedidoB) = {"idade"}
    /\ PedidoA.idade < PedidoB.idade
    /\ ~Ge(Anterior.saida.score, Atual.saida.score)

Medidas ==
    {"pressao_sistolica", "pressao_diastolica", "peso", "colesterol", "glicose",
     "num_medicamentos", "visitas_anuais"}

Sintomas == {"dor_peito", "falta_ar", "fadiga", "tontura"}

\* b is a with one measure larger or one symptom more
Agravou(a, b) ==
    \/ \E f \in Medidas : Diferencas(a, b) = {f} /\ a[f] < b[f]
    \/ \E f \in Sintomas : Diferencas(a, b) = {f} /\ ~a[f] /\ b[f]

\* C6: of two validated records that differ in one of systolic pressure,
\* diastolic pressure, weight, cholesterol, glucose, medication count and
\* annual visits (larger in the second) or in one symptom flag (set in the
\* second only), the second never receives the smaller score
C6_MonotonoNaGravidade ==
    (DoisRespondidos /\ Agravou(PedidoA, PedidoB))
        => Ge(Atual.saida.score, Anterior.saida.score)

\* a heavier patient, otherwise equal, was scored strictly higher
C6_PesoMaiorPontuaMais ==
    /\ DoisRespondidos
    /\ Diferencas(PedidoA, PedidoB) = {"peso"}
    /\ PedidoA.peso < PedidoB.peso
    /\ ~Ge(Anterior.saida.score, Atual.saida.score)

\* the increment of a symptom, in units of 0.0001
IncrementoSintoma(f) ==
    CASE f = "dor_peito" -> 2000
      [] f = "falta_ar" -> 1500
      [] f = "fadiga" -> 1000
      [] f = "tontura" -> 800

\* the second request is the first with one more symptom
SintomaLigado(f) ==
    /\ DoisRespondidos
    /\ Diferencas(PedidoA, PedidoB) = {f}
    /\ ~PedidoA[f]
    /\ PedidoB[f]

\* C7 as stated: setting one symptom flag of a validated record raises the
\* returned score by exactly the increment of that symptom (0.20, 0.15, 0.10,
\* 0.08), whatever the other flags and factors; the scores are compared at
\* the four decimals the service reports
C7_IncrementoExato ==
    \A f \in Sintomas :
        SintomaLigado(f) =>
            Atual.resposta.score_risco =
                Anterior.resposta.score_risco + IncrementoSintoma(f)

\* C7: setting one symptom flag of a validated record raises the returned
\* score by the increment of that symptom up to the clamp: the new score is
\* min(1.0, old score + increment), at the four decimals the service reports
C7_IncrementoAteOLimite ==
    \A f \in Sintomas :
        SintomaLigado(f) =>
            LET soma == Anterior.resposta.score_risco + IncrementoSintoma(f)
            IN  Atual.resposta.score_risco = (IF soma > 10000 THEN 10000 ELSE soma)

\* a symptom was added to a record scored below 1.0 and the clamp cut the rise
C7_AumentoCortado ==
    \E f \in Sintomas :
        /\ SintomaLigado(f)
        /\ Anterior.resposta.score_risco < 10000
        /\ Anterior.resposta.score_risco + IncrementoSintoma(f) > 10000
        /\ Atual.resposta.score_risco = 10000

-----------------------------------------------------------------------------
(* The two worked examples *)

\* C9: the low-risk example gets the increment of its age band and no other:
\* score 0.10, category Low, probability 0.067 = 0.10 * 0.67
C9_ExemploBaixoRisco ==
    (Respondeu /\ PedidoB = exemplo_baixo_risco) =>
        /\ Atual.saida.score = F010
        /\ SomaFatores(PedidoB) = SomaIdade(Zero, PedidoB.idade)
        /\ Atual.saida.categoria = "Baixo Risco"
        /\ Atual.saida.probabilidade = Literal(67, 1000)
        /\ Atual.resposta.probabilidade = 670

C9_ExemploBaixoPontuado ==
    /\ Respondeu
    /\ PedidoB = exemplo_baixo_risco
    /\ Atual.resposta.score_risco = 1000

\* C10: the increments of the high-risk example add up to more than 0.75
\* before the clamp, and it is returned as High with a probability of at
\* least 0.85
C10_ExemploAltoRisco ==
    (Respondeu /\ PedidoB = exemplo_alto_risco) =>
        /\ ~Ge(F075, SomaFatores(PedidoB))
        /\ Atual.saida.categoria = "Alto Risco"
        /\ Ge(Atual.saida.probabilidade, F085)

C10_ExemploAltoPontuado ==
    /\ Respondeu
    /\ PedidoB = exemplo_alto_risco
    /\ Atual.saida.categoria = "Alto Risco"
    /\ Atual.resposta.probabilidade >= 8500

-----------------------------------------------------------------------------
(* Properties of the HTTP service *)

\* C11: for every body PacienteInput accepts, /predicao answers 200 with a
\* PredicaoResponse whose probabilidade, score_risco and confianca lie in
\* [0, 1]; the HTTP 500 branch is never taken
C11_PredicaoTotal ==
    (Len(historico) >= 1 /\ PacienteInput(Atual.pedido)) =>
        /\ Atual.saida.status = 200
        /\ Atual.resposta.probabilidade \in 0..10000
        /\ Atual.resposta.score_risco \in 0..10000
        /\ Atual.resposta.confianca \in 0..1000

\* an accepted body was answered with score_risco on the upper bound of the
\* response model
C11_RespostaNoLimite ==
    /\ Len(historico) >= 1
    /\ PacienteInput(Atual.pedido)
    /\ Atual.saida.status = 200
    /\ Atual.resposta.score_risco = 10000
    /\ Atual.resposta.confianca = 920

\* the declared range of each numeric field, altura in centimetres
Faixas ==
    [idade |-> <<18, 120>>, pressao_sistolica |-> <<60, 300>>,
     pressao_diastolica |-> <<30, 200>>, freq_cardiaca |-> <<30, 200>>,
     peso |-> <<20, 300>>, altura |-> <<100, 250>>, colesterol |-> <<50, 500>>,
     glicose |-> <<50, 400>>, num_medicamentos |-> <<0, 20>>,
     visitas_anuais |-> <<0, 50>>]

ForaDaFaixa(d) ==
    \E f \in DOMAIN Faixas : d[f] < Faixas[f][1] \/ d[f] > Faixas[f][2]

\* the handler was entered for request e: it answered 200 or 500
Pontuado(e) == e.saida.status \in {200, 500}

\* C12: a request whose diastolic pressure is greater than or equal to its
\* systolic pressure, or with a field outside its declared range, is rejected
\* with a validation error and the scorer is not called; every record that is
\* scored has diastolic < systolic and a height above zero
C12_InvalidoRejeitado ==
    \A i \in 1..Len(historico) :
        LET e == historico[i]
        IN  /\ (e.pedido.pressao_diastolica >= e.pedido.pressao_sistolica
                \/ ForaDaFaixa(e.pedido)) =>
                   (e.saida.status = 422 /\ DOMAIN e.saida = {"status"}
                    /\ e.resposta = [detail |-> "validation error"])
            /\ Pontuado(e) =>
                   /\ e.pedido.pressao_diastolica < e.pedido.pressao_sistolica
                   /\ e.pedido.altura > 0

\* a body with every field in range and diastolic >= systolic was rejected,
\* and the same body with the diastolic pressure corrected was scored
C12_CruzadaRejeitada ==
    /\ Len(historico) = 2
    /\ ~ForaDaFaixa(Anterior.pedido)
    /\ Anterior.pedido.pressao_diastolica >= Anterior.pedido.pressao_sistolica
    /\ Anterior.saida.status = 422
    /\ Diferencas(Anterior.pedido, Atual.pedido) = {"pressao_diastolica"}
    /\ Atual.saida.status = 200

-----------------------------------------------------------------------------
(* Properties of the body mass index *)

\* the increment the BMI step of calcular_risco_avancado adds for a body:
\* the step applied to a score of zero
IncrementoBmi(d) == SomaBmi(Zero, calcular_bmi(d.peso, d.altura)[1])

\* C14: the BMI increment applied by calcular_risco_avancado is the one of the
\* band that weight / height^2 itself lies in: +0.25 from 40, +0.20 in [35, 40),
\* +0.15 in [30, 35), +0.08 in [25, 30) and nothing below 25
C14_IncrementoPeloBmiExato ==
    Respondeu =>
        IncrementoBmi(Atual.pedido) = Centesimos(Incrementos(Atual.pedido)[3])

-----------------------------------------------------------------------------
(* Properties of the service under concurrent requests *)

-----------------------------------------------------------------------------
(* Properties of the four services side by side *)

\* the services that answered the body with a 200
Pontuaram == {a \in Respondidos : copias.respostas[a].status = 200}

\* a category label without its accent
SemAcento(categoria) ==
    IF categoria = "Médio Risco" THEN "Medio Risco" ELSE categoria

\* what calcular_risco_avancado returned to a service, label without accent
Pontuacao(a) ==
    [copias.respostas[a].saida EXCEPT !.categoria = SemAcento(@)]

\* C17: the four copies of calcular_risco_avancado return the same score,
\* the same probability, the same confidence and, the accent of the label
\* apart, the same category for every validated record
C17_CopiasEquivalentes ==
    \A a \in Pontuaram : \A b \in Pontuaram : Pontuacao(a) = Pontuacao(b)

\* the four services scored a record of the band 45 to 54 years as medium
\* risk, which api_medica_corrigida.py alone labels with an accent
C17_QuatroPontuaram ==
    /\ Pontuaram = Arquivos
    /\ copias.pedido.idade >= 45 /\ copias.pedido.idade < 55
    /\ copias.respostas["corrigida"].saida.categoria = "Médio Risco"
    /\ copias.respostas["final"].saida.categoria = "Medio Risco"

\* the services that return explanations
ComExplicacoes == Arquivos \ {"final"}

\* the fatores_risco a service returned
FatoresRisco(a) == copias.respostas[a].corpo.explicacoes.fatores_risco

\* impacto x is not below impacto y: a number of thousandths in
\* api_medica_corrigida.py and api_medica_windows.py, a float in backend/main.py
NaoMenor(a, x, y) == IF a = "backend" THEN Ge(x, y) ELSE x >= y

NaoCrescente(a, lista) ==
    \A i \in 1..Len(lista) - 1 :
        NaoMenor(a, lista[i].impacto, lista[i + 1].impacto)

\* C16: the fatores_risco every explanation generator returns is ordered by
\* non-increasing impacto for every validated record
C16_FatoresOrdenados ==
    \A a \in Pontuaram \cap ComExplicacoes : NaoCrescente(a, FatoresRisco(a))

\* the same for the two generators that sort the list
C16_OrdenadosOndeOrdena ==
    \A a \in Pontuaram \cap {"corrigida", "windows"} :
        NaoCrescente(a, FatoresRisco(a))

-----------------------------------------------------------------------------
(* Properties of the explanations *)

\* the factors calcular_risco_avancado adds an increment for
Fatores ==
    {"idade", "pressao", "bmi", "colesterol", "glicose", "dor_peito",
     "falta_ar", "fadiga", "tontura", "num_medicamentos", "visitas_anuais",
     "genero"}

\* the factor added a positive increment to the score of record d in
\* api_medica_corrigida.py
Incrementou_corrigida(f, d) ==
    Zero #
    CASE f = "idade" -> SomaIdade_corrigida(Zero, d.idade)
      [] f = "pressao" -> SomaPressao_corrigida(Zero, d.pressao_sistolica,
                                                d.pressao_diastolica)
      [] f = "bmi" ->
             SomaBmi_corrigida(Zero,
                               calcular_bmi_corrigida(d.peso, d.altura)[1])
      [] f = "colesterol" -> SomaColesterol_corrigida(Zero, d.colesterol)
      [] f = "glicose" -> SomaGlicose_corrigida(Zero, d.glicose)
      [] f = "dor_peito" -> SomaDorPeito_corrigida(Zero, d)
      [] f = "falta_ar" -> SomaFaltaAr_corrigida(Zero, d)
      [] f = "fadiga" -> SomaFadiga_corrigida(Zero, d)
      [] f = "tontura" -> SomaTontura_corrigida(Zero, d)
      [] f = "num_medicamentos" ->
             SomaMedicamentos_corrigida(Zero, d.num_medicamentos)
      [] f = "visitas_anuais" -> SomaVisitas_corrigida(Zero, d.visitas_anuais)
      [] f = "genero" -> SomaGenero_corrigida(Zero, d.genero)

\* the same in api_medica_windows.py
Incrementou_windows(f, d) ==
    Zero #
    CASE f = "idade" -> SomaIdade_windows(Zero, d.idade)
      [] f = "pressao" -> SomaPressao_windows(Zero, d.pressao_sistolica,
                                              d.pressao_diastolica)
      [] f = "bmi" ->
             SomaBmi_windows(Zero, calcular_bmi_windows(d.peso, d.altura)[1])
      [] f = "colesterol" -> SomaColesterol_windows(Zero, d.colesterol)
      [] f = "glicose" -> SomaGlicose_windows(Zero, d.glicose)
      [] f = "dor_peito" -> SomaDorPeito_windows(Zero, d)
      [] f = "falta_ar" -> SomaFaltaAr_windows(Zero, d)
      [] f = "fadiga" -> SomaFadiga_windows(Zero, d)
      [] f = "tontura" -> SomaTontura_windows(Zero, d)
      [] f = "num_medicamentos" ->
             SomaMedicamentos_windows(Zero, d.num_medicamentos)
      [] f = "visitas_anuais" -> SomaVisitas_windows(Zero, d.visitas_anuais)
      [] f = "genero" -> SomaGenero_windows(Zero, d.genero)

Incrementou(a, f, d) ==
    IF a = "corrigida" THEN Incrementou_corrigida(f, d)
    ELSE Incrementou_windows(f, d)

\* the names under which a generator lists a factor among the fatores_risco
NomesDoFator(f) ==
    CASE f = "idade" -> {"Idade Avançada", "Idade Intermediária",
                         "Idade Avancada", "Idade Intermediaria"}
      [] f = "pressao" -> {"Hipertensão Severa", "Hipertensão Leve",
                           "Hipertensao Severa", "Hipertensao Leve"}
      [] f = "bmi" -> {"Obesidade", "Sobrepeso"}
      [] f = "colesterol" -> {"Colesterol Muito Alto", "Colesterol Elevado"}
      [] f = "glicose" -> {"Diabetes", "Pré-diabetes"}
      [] f = "dor_peito" -> {"Dor Torácica", "Dor Toracica"}
      [] f = "falta_ar" -> {"Dispneia"}
      [] f = "fadiga" -> {"Fadiga"}
      [] OTHER -> {}

\* the explanation a service returned lists the factor as a risk factor
Explicado(a, f) ==
    \E i \in 1..Len(FatoresRisco(a)) :
        FatoresRisco(a)[i].fator \in NomesDoFator(f)

\* the factors that added to the score of the body and are not listed
NaoExplicados(a) ==
    {f \in Fatores : Incrementou(a, f, copias.pedido) /\ ~Explicado(a, f)}

\* C15: for every validated record and every factor that added a positive
\* increment to its score, the explanation returned for the record has a
\* risk-factor entry for that factor
C15_ExplicacaoCompleta ==
    \A a \in Pontuaram \cap {"corrigida", "windows"} : NaoExplicados(a) = {}

-----------------------------------------------------------------------------
(* Properties of the interactive form *)

\* the last run of the script scored the record of the sidebar
Analisado == exibido.tela = "analise"

\* C20: in every run of main in which the button is pressed, the record
\* passed to calcular_risco_simulado has its diastolic pressure below its
\* systolic pressure
C20_DiastolicaMenorQueSistolica ==
    Analisado =>
        exibido.dados.pressao_diastolica < exibido.dados.pressao_sistolica

\* C19: for every record the widgets can produce, calcular_risco_simulado
\* returns a score in [0, 1] and a probability in [0.01, 0.99]
C19_ScoreEProbabilidadeNoIntervalo ==
    Analisado =>
        /\ Ge(F100, exibido.resultado.score)
        /\ Ge(exibido.resultado.probabilidade, F001)
        /\ Ge(F099, exibido.resultado.probabilidade)

\* the probability alone stays in [0.01, 0.99]
C19_ProbabilidadeNoIntervalo ==
    Analisado =>
        /\ Ge(exibido.resultado.probabilidade, F001)
        /\ Ge(F099, exibido.resultado.probabilidade)

\* what calcular_risco_avancado of the API returns for the record of the
\* sidebar
PelaApi == calcular_risco_avancado(sidebar)

\* C18: for every record the form and the API both accept,
\* calcular_risco_simulado returns the score and the category of the API's
\* calcular_risco_avancado, the category by the thresholds 0.45 and 0.75
C18_MesmoScoreECategoria ==
    Analisado /\ PacienteInput(sidebar) =>
        /\ exibido.resultado.score = PelaApi.score
        /\ SemAcento(exibido.resultado.categoria) = PelaApi.categoria
        /\ exibido.resultado.categoria = "Alto Risco"
               <=> Ge(exibido.resultado.score, F075)
        /\ exibido.resultado.categoria = "Baixo Risco"
               <=> ~Ge(exibido.resultado.score, F045)

-----------------------------------------------------------------------------
(* Properties of the published examples *)

\* the category the key of a published patient names
CategoriaDaChave(chave) ==
    CASE chave = "exemplo_baixo_risco" -> "Baixo Risco"
      [] chave = "exemplo_medio_risco" -> "Medio Risco"
      [] chave = "exemplo_alto_risco" -> "Alto Risco"

\* backend/main.py answered the patient published under the key
RespondeuAoExemplo(chave) ==
    /\ TemPedido
    /\ copias.pedido = exemplo_paciente_backend[chave]
    /\ "backend" \in Respondidos

\* C21: every patient published by /exemplo-paciente passes the validation
\* of PacienteInput and is put by calcular_risco_avancado of the same file
\* in the category its key names
C21_ExemplosNaCategoriaDaChave ==
    \A chave \in DOMAIN exemplo_paciente_backend :
        RespondeuAoExemplo(chave) =>
            /\ copias.respostas["backend"].status = 200
            /\ copias.respostas["backend"].saida.categoria
                   = CategoriaDaChave(chave)

\* backend/main.py scored its exemplo_medio_risco as medium risk
C21_ExemploMedioPontuado ==
    /\ RespondeuAoExemplo("exemplo_medio_risco")
    /\ copias.respostas["backend"].saida.categoria = "Medio Risco"

-----------------------------------------------------------------------------
(* Pairs of requests to /predicao of api_medica_final.py *)

\* the bodies of the sample
Amostra == UNION {Edicoes(b) : b \in Exemplos}

\* the two fields calcular_risco_avancado never reads
NaoLidos == {"freq_cardiaca", "tipo_sanguineo"}

\* a body sent again with another heart rate, another blood type or both
Reenvios(d) ==
    {[d EXCEPT !.freq_cardiaca = f, !.tipo_sanguineo = t] :
         f \in Valores.freq_cardiaca, t \in Valores.tipo_sanguineo}

\* two clients send one request each; the second one's body does not depend
\* on the first one's (an example or the body with every factor in its
\* highest band), or is the first one's again but for the fields of NaoLidos
EntradasPares ==
    IF historico = <<>> THEN Amostra
    ELSE IF Len(historico) = 1
         THEN Exemplos \cup {paciente_maximo}
                  \cup Reenvios(historico[1].pedido)
         ELSE {}

NextPares ==
    \/ \E dados \in EntradasPares : fazer_predicao(dados)
    \/ \E dados \in EntradasPares : rejeitar(dados)

SpecPares == Init /\ [][NextPares]_vars

\* the probability follows the score from the request before to the last one
SegueOScore(a, b) ==
    Ge(b.score, a.score) => Ge(b.probabilidade, a.probabilidade)

\* the request of the lower category has the strictly lower probability
AbaixoDaCategoriaSeguinte(a, b) ==
    (\/ a.categoria = "Baixo Risco" /\ b.categoria = "Medio Risco"
     \/ a.categoria = "Medio Risco" /\ b.categoria = "Alto Risco")
        => ~Ge(a.probabilidade, b.probabilidade)

\* C22: of two validated records the one with the score not smaller has the
\* probability not smaller, across the boundaries of the categories too:
\* every probability of Low is below every probability of Medium, and every
\* probability of Medium below every probability of High
C22_ProbabilidadeSegueOScore ==
    DoisRespondidos =>
        /\ SegueOScore(Anterior.saida, Atual.saida)
        /\ SegueOScore(Atual.saida, Anterior.saida)
        /\ AbaixoDaCategoriaSeguinte(Anterior.saida, Atual.saida)
        /\ AbaixoDaCategoriaSeguinte(Atual.saida, Anterior.saida)

\* the float score of a scored request is the decimal sum of its increments
SomaExata(e) ==
    LET soma == SomaDecimal(Incrementos(e.pedido))
    IN  e.saida.score = Literal(IF soma >= 100 THEN 100 ELSE soma, 100)

\* between two records whose float sums are exact the probability follows
\* the score
ProbabilidadeSegueASomaExata ==
    (DoisRespondidos /\ SomaExata(Anterior) /\ SomaExata(Atual))
        => C22_ProbabilidadeSegueOScore

\* a record summing Medium's lower limit was scored after one whose three
\* increments of 0.15 sum to less in floats
C22_LimiteDepoisDeTresQuinze ==
    /\ DoisRespondidos
    /\ PedidoA = paciente_045
    /\ PedidoB = paciente_045b

\* C26: two validated records that differ only in freq_cardiaca, in
\* tipo_sanguineo or in both receive the same category, probability, score
\* and confidence from calcular_risco_avancado
C26_NaoLidosSemEfeito ==
    (DoisRespondidos /\ Diferencas(PedidoA, PedidoB) \subseteq NaoLidos)
        => /\ Atual.saida.categoria = Anterior.saida.categoria
           /\ Atual.saida.probabilidade = Anterior.saida.probabilidade
           /\ Atual.saida.score = Anterior.saida.score
           /\ Atual.saida.confianca = Anterior.saida.confianca

\* a record with a positive score was scored again with another heart rate
\* and another blood type
C26_OutraFrequenciaEOutroSangue ==
    /\ DoisRespondidos
    /\ Diferencas(PedidoA, PedidoB) = NaoLidos
    /\ ~IsZero(Atual.saida.score)

-----------------------------------------------------------------------------
(* classificar_pressao and calcular_bmi of api_medica_final.py called alone *)

\* the arguments of the calls: pressures in mmHg, weights in kilograms and
\* heights in centimetres, on both sides of every threshold
Sistolicas == {90, 110, 119, 120, 129, 130, 135, 139, 140, 150, 179, 180, 185}
Diastolicas == {60, 79, 80, 85, 89, 90, 95, 119, 120, 130}
Pesos == {20, 45, 57, 64, 65, 85, 100, 120, 300}
Alturas == {100, 151, 160, 165, 175, 200, 250}

ArgumentosDe ==
    [classificar_pressao |-> Sistolicas \X Diastolicas,
     calcular_bmi        |-> Pesos \X Alturas]

\* a function is called with any arguments and then again and again with
\* one of its two arguments changed
ArgumentosSeguintes(funcao) ==
    IF calculo = <<>> THEN ArgumentosDe[funcao]
    ELSE IF calculo[Len(calculo)].funcao = funcao
    THEN LET a == calculo[Len(calculo)].argumentos
         IN  {b \in ArgumentosDe[funcao] : b[1] = a[1] \/ b[2] = a[2]}
    ELSE {}

\* the call is recorded after the call before it
Chamar(funcao, argumentos, retorno) ==
    LET c == [funcao |-> funcao, argumentos |-> argumentos, retorno |-> retorno]
    IN  /\ calculo' = IF calculo = <<>> THEN <<c>>
                      ELSE <<calculo[Len(calculo)], c>>
        /\ UNCHANGED <<modelo_ia, historico, em_curso, copias, sidebar,
                       session_state, exibido>>

chamar_classificar_pressao(sistolica, diastolica) ==
    Chamar("classificar_pressao", <<sistolica, diastolica>>,
           <<classificar_pressao(sistolica, diastolica)>>)

chamar_calcular_bmi(peso, altura) ==
    Chamar("calcular_bmi", <<peso, altura>>, calcular_bmi(peso, altura))

NextCalculo ==
    \/ \E a \in ArgumentosSeguintes("classificar_pressao") :
           chamar_classificar_pressao(a[1], a[2])
    \/ \E a \in ArgumentosSeguintes("calcular_bmi") :
           chamar_calcular_bmi(a[1], a[2])

SpecCalculo == Init /\ [][NextCalculo]_vars

\* the last call and the one before it
UltimaChamada == calculo[Len(calculo)]
PenultimaChamada == calculo[1]
Chamou(funcao) == calculo # <<>> /\ UltimaChamada.funcao = funcao
ChamouDuasVezes(funcao) == Len(calculo) = 2 /\ UltimaChamada.funcao = funcao

-----------------------------------------------------------------------------
(* Properties of classificar_pressao *)

\* the increment the pressure step of calcular_risco_avancado adds for a
\* pair: the step applied to a score of zero
IncrementoPressao(sistolica, diastolica) ==
    SomaPressao(Zero, sistolica, diastolica)

\* C23: for a pair with diastolic < systolic the label of classificar_pressao
\* agrees with the band of the score: 'Crise Hipertensiva' iff +0.30 is
\* added, 'Hipertensao Estagio 2' iff +0.25, 'Hipertensao Estagio 1' iff
\* +0.15, 'Elevada' iff +0.05 and 'Normal' iff nothing
C23_RotuloPelaBandaDoScore ==
    (/\ Chamou("classificar_pressao")
     /\ UltimaChamada.argumentos[2] < UltimaChamada.argumentos[1])
        => LET rotulo == UltimaChamada.retorno[1]
               inc    == IncrementoPressao(UltimaChamada.argumentos[1],
                                           UltimaChamada.argumentos[2])
           IN  /\ rotulo = "Crise Hipertensiva" <=> inc = F030
               /\ rotulo = "Hipertensao Estagio 2" <=> inc = F025
               /\ rotulo = "Hipertensao Estagio 1" <=> inc = F015
               /\ rotulo = "Elevada" <=> inc = F005
               /\ rotulo = "Normal" <=> inc = Zero

\* the severity of a label
Gravidade(rotulo) ==
    CASE rotulo = "Normal" -> 0
      [] rotulo = "Elevada" -> 1
      [] rotulo = "Hipertensao Estagio 1" -> 2
      [] rotulo = "Hipertensao Estagio 2" -> 3
      [] rotulo = "Crise Hipertensiva" -> 4

\* every pair receives one of the five labels
RotuloTotal ==
    Chamou("classificar_pressao") =>
        UltimaChamada.retorno[1] \in
            {"Normal", "Elevada", "Hipertensao Estagio 1",
             "Hipertensao Estagio 2", "Crise Hipertensiva"}

\* C24: classificar_pressao gives every pair exactly one of the five labels,
\* and raising the systolic value with the diastolic one fixed, or the
\* diastolic value with the systolic one fixed, never gives a less severe
\* label under Normal < Elevada < Estagio 1 < Estagio 2 < Crise Hipertensiva
C24_TotalEMonotona ==
    /\ RotuloTotal
    /\ (/\ ChamouDuasVezes("classificar_pressao")
        /\ PenultimaChamada.argumentos[1] <= UltimaChamada.argumentos[1]
        /\ PenultimaChamada.argumentos[2] <= UltimaChamada.argumentos[2])
           => Gravidade(PenultimaChamada.retorno[1])
                  <= Gravidade(UltimaChamada.retorno[1])

-----------------------------------------------------------------------------
(* Properties of calcular_bmi *)

\* the label of a body mass index of two decimals, in hundredths, under the
\* thresholds 18.5, 25, 30, 35 and 40
FaixaDoBmi(bmi) ==
    IF bmi < 1850 THEN "Abaixo do peso"
    ELSE IF bmi < 2500 THEN "Peso normal"
    ELSE IF bmi < 3000 THEN "Sobrepeso"
    ELSE IF bmi < 3500 THEN "Obesidade Grau I"
    ELSE IF bmi < 4000 THEN "Obesidade Grau II"
    ELSE "Obesidade Grau III (Morbida)"

\* the increment of the score each label stands for
IncrementoDaFaixa(classificacao) ==
    CASE classificacao \in {"Abaixo do peso", "Peso normal"} -> Zero
      [] classificacao = "Sobrepeso" -> F008
      [] classificacao = "Obesidade Grau I" -> F015
      [] classificacao = "Obesidade Grau II" -> F020
      [] classificacao = "Obesidade Grau III (Morbida)" -> F025

\* C25: for a weight of 20 to 300 kg and a height of 1.0 to 2.5 m the label
\* calcular_bmi returns is the one its returned two-decimal bmi falls into
\* under the thresholds 18.5, 25, 30, 35 and 40 (never bmi = 25.0 with 'Peso
\* normal'), and it matches the band of the BMI step of the score
C25_RotuloPeloBmiDevolvido ==
    (/\ Chamou("calcular_bmi")
     /\ UltimaChamada.argumentos[1] \in 20..300
     /\ UltimaChamada.argumentos[2] \in 100..250)
        => /\ UltimaChamada.retorno[2] = FaixaDoBmi(UltimaChamada.retorno[1])
           /\ SomaBmi(Zero, UltimaChamada.retorno[1])
                  = IncrementoDaFaixa(UltimaChamada.retorno[2])

-----------------------------------------------------------------------------
(* Properties of the protective factors *)

\* the factors a generator may list as protective, and the names it lists
\* them under
Protetores == {"idade", "pressao", "bmi"}

NomesDoProtetor(f) ==
    CASE f = "idade" -> {"Idade Jovem"}
      [] f = "pressao" -> {"Pressão Normal", "Pressao Normal"}
      [] f = "bmi" -> {"Peso Normal"}

\* the fatores_protecao a service returned
FatoresProtecao(a) == copias.respostas[a].corpo.explicacoes.fatores_protecao

\* the answer lists the factor as protective
Protege(a, f) ==
    \E i \in 1..Len(FatoresProtecao(a)) :
        FatoresProtecao(a)[i].fator \in NomesDoProtetor(f)

\* the factor added a positive increment to the score of record d in
\* backend/main.py
Incrementou_backend(f, d) ==
    Zero #
    CASE f = "idade" -> SomaIdade_backend(Zero, d.idade)
      [] f = "pressao" -> SomaPressao_backend(Zero, d.pressao_sistolica,
                                              d.pressao_diastolica)
      [] f = "bmi" ->
             SomaBmi_backend(Zero, calcular_bmi_backend(d.peso, d.altura)[1])

IncrementouNoArquivo(a, f, d) ==
    IF a = "backend" THEN Incrementou_backend(f, d) ELSE Incrementou(a, f, d)

\* no factor is listed both as a risk and as protective
SemFatorNasDuasListas ==
    \A a \in Pontuaram \cap ComExplicacoes :
        \A f \in Protetores : ~(Protege(a, f) /\ Explicado(a, f))

\* C27: for every validated record a factor listed in fatores_protecao added
\* nothing to the score of the record, and no factor is listed in both
\* fatores_risco and fatores_protecao
C27_ProtetorSemIncremento ==
    /\ SemFatorNasDuasListas
    /\ \A a \in Pontuaram \cap ComExplicacoes :
           \A f \in Protetores :
               Protege(a, f) => ~IncrementouNoArquivo(a, f, copias.pedido)

\* the same, the age apart
ProtetorSemIncrementoSalvoIdade ==
    \A a \in Pontuaram \cap ComExplicacoes :
        \A f \in Protetores \ {"idade"} :
            Protege(a, f) => ~IncrementouNoArquivo(a, f, copias.pedido)

-----------------------------------------------------------------------------
(* Properties of gerar_recomendacoes_personalizadas *)

\* api_medica_corrigida.py answered the body with an analysis
AnalisouCorrigida == "corrigida" \in Pontuaram

\* the recommendations of the answer, and the pressure label and the category
\* they were generated for
Recomendacoes == copias.respostas["corrigida"].corpo.explicacoes.recomendacoes
RotuloDaPressao ==
    copias.respostas["corrigida"].corpo.predicao.classificacao_pressao
CategoriaDaAnalise == copias.respostas["corrigida"].saida.categoria

RecDaDorPeito ==
    "INVESTIGAR dor torácica: ECG, troponina, considerar cateterismo"
RecDaCrise == "EMERGÊNCIA: Atendimento imediato - risco de AVC/IAM"

\* the entries inserted at the front of the list
Urgentes ==
    (IF copias.pedido.dor_peito THEN 1 ELSE 0)
        + (IF RotuloDaPressao = "Crise Hipertensiva" THEN 1 ELSE 0)

\* C28: gerar_recomendacoes_personalizadas returns at most 8 entries; with
\* chest pain the first one is the investigation of the chest pain; with the
\* label 'Crise Hipertensiva' the emergency entry is the first one without
\* chest pain and the second one with it; and the five entries of the
\* category are all kept, behind the urgent ones
C28_UrgentesNaFrente ==
    AnalisouCorrigida =>
        /\ Len(Recomendacoes) <= 8
        /\ copias.pedido.dor_peito => Recomendacoes[1] = RecDaDorPeito
        /\ RotuloDaPressao = "Crise Hipertensiva" =>
               Recomendacoes[IF copias.pedido.dor_peito THEN 2 ELSE 1]
                   = RecDaCrise
        /\ SubSeq(Recomendacoes, Urgentes + 1, Urgentes + 5)
               = RecCategoria_corrigida(CategoriaDaAnalise)

\* a body with chest pain and a pressure in crisis got eight recommendations
C28_DorPeitoECriseComOito ==
    /\ AnalisouCorrigida
    /\ copias.pedido.dor_peito
    /\ RotuloDaPressao = "Crise Hipertensiva"
    /\ Len(Recomendacoes) = 8

-----------------------------------------------------------------------------
(* The accumulation of the increments in binary floating point *)

\* the normalised float sum of the increments the table gives a body
SomaDaTabela(d) == Normalizar(SomaFloat(Zero, Incrementos(d)))

\* the score compares against a threshold as the decimal sum, in
\* hundredths, does
ComparaComoDecimal(score, limiar, soma, centesimos) ==
    Ge(score, limiar) <=> soma >= centesimos

\* C29: accumulating the increments in floats never changes the outcome: the
\* score of a validated record compares against 0.45 and against 0.75 as
\* the exact decimal sum of its increments does, and the record whose
\* increments are 0.15 + 0.15 + 0.15 is classified Medium
C29_FloatComoDecimal ==
    (Respondeu /\ Atual.saida.score = SomaDaTabela(Atual.pedido)) =>
        /\ ComparaComoDecimal(Atual.saida.score, F045,
                              SomaDecimal(Incrementos(Atual.pedido)), 45)
        /\ ComparaComoDecimal(Atual.saida.score, F075,
                              SomaDecimal(Incrementos(Atual.pedido)), 75)
        /\ Atual.pedido = paciente_045 =>
               Atual.saida.categoria = "Medio Risco"

\* the float sum and the decimal sum agree at both thresholds for every
\* scored body but those whose decimal sum is a threshold itself
FloatComoDecimalForaDosLimiares ==
    (Respondeu /\ Atual.saida.score = SomaDaTabela(Atual.pedido)
        /\ SomaDecimal(Incrementos(Atual.pedido)) \notin {45, 75}) =>
        /\ ComparaComoDecimal(Atual.saida.score, F045,
                              SomaDecimal(Incrementos(Atual.pedido)), 45)
        /\ ComparaComoDecimal(Atual.saida.score, F075,
                              SomaDecimal(Incrementos(Atual.pedido)), 75)

-----------------------------------------------------------------------------
(* The sum of the increments before it is normalised *)

F150 == <<0, 0, 0, 16384, 1>>
F216 == <<4096, 27525, 28835, 5242, 2>>

\* the two bounds are the floats of 1.5 and 2.16
LimitesDaSomaExatos ==
    /\ F150 = Literal(150, 100)
    /\ F216 = Literal(216, 100)

=============================================================================
